---------------------------- MODULE Spec2Model ----------------------------
(***************************************************************************)
(* The NVDA Remote relay server (source/remoteClient/server.py):           *)
(* LocalRelayServer's select loop and the per-socket Client sessions.      *)
(* Every handler of the single-threaded loop is one action; the calls a    *)
(* handler makes (send, close, clientDisconnected, sendToOthers) are       *)
(* operators over a record S that threads the server's state, the log of   *)
(* what the handler did, and the exception (if any) that is propagating.   *)
(***************************************************************************)
EXTENDS Integers, Sequences, FiniteSets, TLC

VARIABLES
    loop,          \* position of LocalRelayServer.run
    running,       \* LocalRelayServer._running
    clients,       \* LocalRelayServer.clients / clientSockets, in insertion order (ids)
    obj,           \* the Client objects the table refers to, by id
    nextId,        \* the class attribute Client.id
    gone,          \* table entries whose peer has gone away: recv and sendall fail
    now,           \* time.time()
    lastPingTime,  \* LocalRelayServer.lastPingTime
    exc,           \* the exception that ended run(), "none" while it has not ended
    ev,            \* the handler run by the last step and its input
    log,           \* what the last handler did, in order
    pre,           \* the table and the Client objects as the last handler found them
    wire,          \* bytes a peer has written that the server has not yet received
    rcvd,          \* history: all bytes received from each client
    parsedHist,    \* history: every line handed to Client.parse, per client
    closePc,       \* position of LocalRelayServer.close on the thread that calls it
    listening,     \* serverSocket and serverSocket6 are open
    initPc,        \* per server thread: position in Client.__init__
    initTmp,       \* per server thread: the value of Client.id loaded by "Client.id += 1"
    selfId,        \* per server thread: self.id of the Client being constructed
    issued,        \* history: the ids of the Clients constructed, in order of completion
    keyFile,       \* RemoteCertificateManager.keyPath: the file's content
    certFile,      \* RemoteCertificateManager.certPath: the file's content
    fpFile,        \* RemoteCertificateManager.fingerprintPath: the file's content
    trusted,       \* config["trusted_certs"] for localhost and 127.0.0.1
    today,         \* datetime.utcnow(), in half days
    gens,          \* the number of certificates generated so far
    certPc,        \* position in _generateSelfSignedCert ("idle" outside it)
    last,          \* the last ensureValidCertExists call: how it found the files, what it did
    transports,    \* the RelayTransports created so far, all with their reconnector started
    leaderTransport,    \* RemoteClient.leaderTransport (0 for None)
    followerTransport,  \* RemoteClient.followerTransport (0 for None)
    leaderSession,      \* the transport of RemoteClient.leaderSession (0 for None)
    followerSession,    \* the transport of RemoteClient.followerSession (0 for None)
    callbacks,     \* the alwaysCallAfter callbacks queued for the main thread
    localControlServer, \* RemoteClient.localControlServer (0 for None)
    servers,       \* the LocalRelayServers started so far: TRUE while not closed
    pins,          \* the configuration's trusted_certs: address -> fingerprint
    retried,       \* the transports made by a certificate callback's reconnect
    did,           \* the last handler of RemoteClient that ran, and its prompt
    sendingKeys,   \* RemoteClient.sendingKeys
    keyModifiers,  \* RemoteClient.keyModifiers
    hostPendingModifiers,  \* RemoteClient.hostPendingModifiers
    localScripts,  \* RemoteClient.localScripts
    forwarded,     \* the modifiers whose press was sent and whose release was not
    held,          \* the keys whose press was sent and whose release was not
    kev,           \* the last key handler that ran: what it sent, ran and returned
    isMuted,       \* LocalMachine.isMuted
    receivingBraille,  \* LocalMachine.receivingBraille
    cachedSizes,   \* LocalMachine._cachedSizes: None, or its list
    displaySize,   \* braille.handler.displaySize
    queue,         \* the calls wx.CallAfter has queued for the main thread
    mev            \* the last step of LocalMachine: the command and where its effect ran

\* The state of the relay server's loop and of its sessions.
relayVars == <<loop, running, clients, obj, nextId, gone, now, lastPingTime, exc,
               ev, log, pre, wire, rcvd, parsedHist>>

\* LocalRelayServer.close, called from another thread.
stopVars == <<closePc, listening>>

\* Client.__init__ run by the threads of several LocalRelayServer instances.
idVars == <<initPc, initTmp, selfId, issued>>

\* RemoteCertificateManager: its files, the configuration and the clock.
certVars == <<keyFile, certFile, fpFile, trusted, today, gens, certPc, last>>

\* RemoteClient: its transports and sessions.
clientVars == <<transports, leaderTransport, followerTransport, leaderSession,
                followerSession, callbacks, localControlServer, servers, pins,
                retried, did>>

\* RemoteClient: the forwarding of keys.
keyVars == <<sendingKeys, keyModifiers, hostPendingModifiers, localScripts,
             forwarded, held, kev>>

\* LocalMachine and the braille handler it reads.
machineVars == <<isMuted, receivingBraille, cachedSizes, displaySize, queue, mev>>

\* What the handlers of the relay's loop never touch.
outside == <<stopVars, idVars, certVars, clientVars, keyVars, machineVars>>

\* What LocalRelayServer.close never touches, the relay's own state aside.
beside == <<idVars, certVars, clientVars, keyVars, machineVars>>

vars == <<relayVars, outside>>

-----------------------------------------------------------------------------
(* Bounds of the model *)

MaxClients == 3

MaxLines == 2

MaxTime == 300

MaxIssued == 4

MaxGens == 3

MaxTransports == 3
MaxServers == 1

MaxCallbacks == 2

MaxDisplay == 2

MaxSizes == 2

MaxQueue == 1

MaxStream == 2

-----------------------------------------------------------------------------
(* Program constants *)

PING_TIME == 300

Password == "abc123"

NL == "\n"

None == "None"

Ids == 1..MaxClients

\* The threads that run a LocalRelayServer each (RemoteClient.startControlServer).
Threads == {1, 2}

Range(s) == {s[i] : i \in 1..Len(s)}

Restrict(f, keys) == [k \in (DOMAIN f) \cap keys |-> f[k]]

Without(f, keys) == [k \in (DOMAIN f) \ keys |-> f[k]]


-----------------------------------------------------------------------------
(* Messages and the line-oriented wire format (JSONSerializer).            *)
(* A byte string is a sequence of tokens; NL is the newline byte.  A       *)
(* message is a record; its JSON text is two tokens long, so that a socket *)
(* read can end in the middle of a line.                                   *)

MsgJoin(channel, connectionType) ==
    [type |-> "join", channel |-> channel, connection_type |-> connectionType]

MsgProtocolVersion(version) == [type |-> "protocol_version", version |-> version]

MsgKey == [type |-> "KEY", vk_code |-> 65, pressed |-> TRUE]

MsgNoType == [vk_code |-> 65]

\* The messages a peer writes in this model.
PeerMsgs ==
    { MsgJoin(Password, "leader"), MsgJoin(Password, "follower"),
      MsgJoin("wrong", "leader"), MsgProtocolVersion(2), MsgKey, MsgNoType }

\* protocol_version without a version field.
MsgProtocolVersionAbsent == [type |-> "protocol_version"]

\* A routed message in which the sender has put an origin field of its own.
MsgKeyOrigin(origin) == [type |-> "KEY", vk_code |-> 65, pressed |-> TRUE, origin |-> origin]

\* More messages a peer can write: the forms of protocol_version and of origin.
VersionMsgs ==
    { MsgProtocolVersion(0), MsgProtocolVersionAbsent, MsgKeyOrigin(0), MsgKeyOrigin(2) }

\* json.dumps of a message, as tokens.
Json(m) ==
    CASE m = MsgJoin(Password, "leader")   -> <<"{join", "abc123,leader}">>
      [] m = MsgJoin(Password, "follower") -> <<"{join", "abc123,follower}">>
      [] m = MsgJoin("wrong", "leader")    -> <<"{join", "wrong,leader}">>
      [] m = MsgProtocolVersion(2)         -> <<"{protocol_version", "2}">>
      [] m = MsgKey                        -> <<"{KEY", "65,true}">>
      [] m = MsgNoType                     -> <<"{", "65}">>
      [] m = MsgProtocolVersion(0)         -> <<"{protocol_version", "0}">>
      [] m = MsgProtocolVersionAbsent      -> <<"{protocol_version", "}">>
      [] m = MsgKeyOrigin(0)               -> <<"{KEY", "65,true,origin0}">>
      [] m = MsgKeyOrigin(2)               -> <<"{KEY", "65,true,origin2}">>

\* JSONSerializer.serialize: the JSON text followed by the separator.
Serialize(m) == Json(m) \o <<NL>>

ValueError == [error |-> "ValueError"]

\* JSONSerializer.deserialize: the message whose JSON text the line is;
\* json.loads raises ValueError for anything else (also for the empty line
\* and for a truncated object).
Deserialize(line) ==
    IF \E m \in PeerMsgs \cup VersionMsgs : Json(m) = line
    THEN CHOOSE m \in PeerMsgs \cup VersionMsgs : Json(m) = line
    ELSE ValueError

\* A line that is not JSON: an object cut short.
Garbage == <<"{KEY">>

\* The names of RemoteMessageType (protocol.py) that the relay uses.
RemoteMessageType ==
    {"join", "protocol_version", "CHANNEL_JOINED", "CLIENT_JOINED", "CLIENT_LEFT",
     "ERROR", "PING", "KEY", "SET_CLIPBOARD_TEXT", "SEND_SAS"}

-----------------------------------------------------------------------------
(* RemoteCertificateManager: files and certificates.  A certificate is     *)
(* known by the number of the generation that made it; its fingerprint is  *)
(* that number.  Time is counted in half days.                             *)

CERT_DURATION_DAYS == 365

CERT_RENEWAL_THRESHOLD_DAYS == 30

\* The time unit: two to a day.
HalfDaysPerDay == 2

\* A file that does not exist.
NoFile == [gen |-> 0, state |-> "absent"]

\* No certificate file.
NoCert == [gen |-> 0, state |-> "absent", notBefore |-> 0, notAfter |-> 0]

\* Before the first call of ensureValidCertExists.
NoCall ==
    [op |-> "none", prevOp |-> "none", generated |-> FALSE, raised |-> "none",
     propagated |-> "none", at |-> 0,
     pre |-> [key |-> NoFile, cert |-> NoCert, fp |-> NoFile]]


HasNL(data) == \E i \in 1..Len(data) : data[i] = NL

FirstNL(data) == CHOOSE i \in 1..Len(data) : data[i] = NL /\ \A j \in 1..(i-1) : data[j] # NL

\* bytes.partition(b"\n"): the part before the first newline, and the part after it.
PartitionLine(data) == SubSeq(data, 1, FirstNL(data) - 1)

PartitionRest(data) == SubSeq(data, FirstNL(data) + 1, Len(data))

RECURSIVE Lines(_)
\* The newline-terminated lines of a byte string, in order.
Lines(data) ==
    IF HasNL(data) THEN <<PartitionLine(data)>> \o Lines(PartitionRest(data)) ELSE <<>>

RECURSIVE Remainder(_)
\* The bytes after the last newline.
Remainder(data) == IF HasNL(data) THEN Remainder(PartitionRest(data)) ELSE data

-----------------------------------------------------------------------------
(* The calls of one handler.  S is a record                                *)
(*   clients, obj, gone : the table, the Client objects, the dead peers    *)
(*   log                : what the handler has done so far                  *)
(*   exc                : the exception propagating, or "none"              *)
(* An operator leaves S alone when an exception is already propagating.    *)

Raise(S, e) ==
    [S EXCEPT !.exc = e, !.log = Append(@, [kind |-> "raise", exc |-> e])]

InTable(S, c) == c \in Range(S.clients)

\* The ids of the authenticated clients in the table.
Authenticated(S) == {c \in Range(S.clients) : S.obj[c].authenticated}

\* The state of a server-side session (section 4.3 of the specification).
SessionState(S, c) ==
    IF S.obj[c].sockClosed \/ ~InTable(S, c) THEN "CLOSED"
    ELSE IF S.obj[c].authenticated THEN "AUTHENTICATED" ELSE "NEW"

\* Client.__init__
NewClient ==
    [authenticated |-> FALSE, protocolVersion |-> 1, connectionType |-> None,
     buffer |-> <<>>, sockClosed |-> FALSE]

\* Client.asDict
AsDict(S, c) == [id |-> c, connection_type |-> S.obj[c].connectionType]

\* The truth value Python gives a keyword argument of Client.send.
Truthy(k, v) ==
    CASE k = "origin"  -> v # 0
      [] k = "clients" -> v # <<>>
      [] k = "client"  -> TRUE

\* Mutant of SendFields: the bookkeeping fields go to every protocol version.
SendFieldsAnyVersion(version, args) ==
    LET kwargs == Without(args, {"type", "origin", "clients", "client"})
        extra  == {k \in {"origin", "clients", "client"} \cap DOMAIN args :
                      Truthy(k, args[k])}
    IN  kwargs @@ Restrict(args, extra)

\* Client.send, lines 491-498: the fields written to a peer of the given
\* protocol version.
SendFields(version, args) ==
    LET kwargs == Without(args, {"type", "origin", "clients", "client"})
        extra  == {k \in {"origin", "clients", "client"} \cap DOMAIN args :
                      Truthy(k, args[k])}
    IN  IF version > 1 THEN kwargs @@ Restrict(args, extra) ELSE kwargs

\* Client.send, line 500: what is serialised.
SendData(version, args) == SendFields(version, args) @@ [type |-> args.type]

\* socket.sendall succeeds on an open socket whose peer is still there.
SendallOk(S, c) == ~S.obj[c].sockClosed /\ c \notin S.gone

\* LocalRelayServer.removeClient
RemoveClient(S, c) ==
    IF ~InTable(S, c) THEN Raise(S, "KeyError")
    ELSE [S EXCEPT !.clients = SelectSeq(@, LAMBDA x : x # c),
                   !.log = Append(@, [kind |-> "remove", c |-> c])]

\* Mutant of IsRecipient: the authenticated flag is not looked at.
IsRecipientAny(S, self, c) == c # self

\* Client.sendToOthers, line 516: who is sent the message.
IsRecipient(S, self, c) == c # self /\ S.obj[c].authenticated

\* next() of a dict iterator: the dict has changed size since iteration began.
DictChanged(S, snap) == Len(S.clients) # Len(snap)

RECURSIVE Send(_, _, _), Close(_, _), ClientDisconnected(_, _), SendToOthers(_, _, _), SendLoop(_, _, _, _, _)

\* Client.send
Send(S, c, args) ==
    IF S.exc # "none" THEN S
    ELSE LET ok == SendallOk(S, c)
             S1 == [S EXCEPT !.log = Append(@,
                       [kind |-> "send", to |-> c,
                        msg |-> SendData(S.obj[c].protocolVersion, args),
                        ok |-> ok, toState |-> SessionState(S, c),
                        toVersion |-> S.obj[c].protocolVersion,
                        toAuth |-> S.obj[c].authenticated])]
         IN  IF ok THEN S1 ELSE Close(S1, c)

\* Client.close
Close(S, c) ==
    IF S.exc # "none" THEN S
    ELSE ClientDisconnected(
             [S EXCEPT !.obj[c].sockClosed = TRUE,
                       !.log = Append(@, [kind |-> "close", c |-> c,
                                          auth |-> S.obj[c].authenticated,
                                          inTable |-> InTable(S, c)])], c)

\* LocalRelayServer.clientDisconnected
ClientDisconnected(S, c) ==
    LET S1 == RemoveClient(S, c)
    IN  IF S1.exc # "none" THEN S1
        ELSE IF S1.obj[c].authenticated
             THEN SendToOthers(S1, c, [type |-> "CLIENT_LEFT", user_id |-> c,
                                       client |-> AsDict(S1, c)])
             ELSE S1

\* Client.sendToOthers: origin is taken from the payload when it has one.
SendToOthers(S, self, payload) ==
    IF S.exc # "none" THEN S
    ELSE LET origin == IF "origin" \in DOMAIN payload THEN payload.origin ELSE self
             args   == [origin |-> origin] @@ payload
         IN  SendLoop(S, self, args, S.clients, 1)

\* The loop of sendToOthers over self.server.clients.values(), the live dict.
SendLoop(S, self, args, snap, i) ==
    IF S.exc # "none" THEN S
    ELSE IF DictChanged(S, snap) THEN Raise(S, "RuntimeError")
    ELSE IF i > Len(snap) THEN S
    ELSE SendLoop(IF IsRecipient(S, self, snap[i]) THEN Send(S, snap[i], args) ELSE S,
                  self, args, snap, i + 1)

-----------------------------------------------------------------------------
(* Message handling of a session *)

\* Client.do_join, line 432: the password check.
PasswordOk(msg) == "channel" \in DOMAIN msg /\ msg.channel = Password

\* Mutant of Roster: every other connection, authenticated or not.
RosterAll(S, self) == SelectSeq(S.clients, LAMBDA c : c # self)

\* Client.do_join, lines 445-449: the roster, in table order.
Roster(S, self) ==
    SelectSeq(S.clients, LAMBDA c : c # self /\ S.obj[c].authenticated)

RosterDicts(S, self) ==
    LET r == Roster(S, self) IN [i \in 1..Len(r) |-> AsDict(S, r[i])]

\* Mutant of DoJoin: a wrong password is answered, the connection stays open.
DoJoinNoClose(S, self, msg) ==
    IF ~PasswordOk(msg)
    THEN Send(S, self, [type |-> "ERROR", message |-> "incorrect_password"])
    ELSE LET S1 == [S EXCEPT !.obj[self].connectionType =
                                 IF "connection_type" \in DOMAIN msg
                                 THEN msg.connection_type ELSE None,
                             !.obj[self].authenticated = TRUE]
             S2 == Send(S1, self, [type |-> "CHANNEL_JOINED", channel |-> Password,
                                   user_ids |-> Roster(S1, self),
                                   clients |-> RosterDicts(S1, self)])
         IN  SendToOthers(S2, self, [type |-> "CLIENT_JOINED", user_id |-> self,
                                     client |-> AsDict(S2, self)])

\* Client.do_join
DoJoin(S, self, msg) ==
    IF ~PasswordOk(msg)
    THEN Close(Send(S, self, [type |-> "ERROR", message |-> "incorrect_password"]), self)
    ELSE LET S1 == [S EXCEPT !.obj[self].connectionType =
                                 IF "connection_type" \in DOMAIN msg
                                 THEN msg.connection_type ELSE None,
                             !.obj[self].authenticated = TRUE]
             S2 == Send(S1, self, [type |-> "CHANNEL_JOINED", channel |-> Password,
                                   user_ids |-> Roster(S1, self),
                                   clients |-> RosterDicts(S1, self)])
         IN  SendToOthers(S2, self, [type |-> "CLIENT_JOINED", user_id |-> self,
                                     client |-> AsDict(S2, self)])

\* Client.do_protocol_version
DoProtocolVersion(S, self, msg) ==
    IF "version" \notin DOMAIN msg \/ msg.version = 0 THEN S
    ELSE [S EXCEPT !.obj[self].protocolVersion = msg.version]

\* Mutant of Dispatch: a do_ method is looked up before the authenticated
\* flag is.
DispatchMethodFirst(S, self, parsed) ==
    IF "type" \notin DOMAIN parsed THEN S
    ELSE IF parsed.type = "join" THEN DoJoin(S, self, parsed)
    ELSE IF parsed.type = "protocol_version" THEN DoProtocolVersion(S, self, parsed)
    ELSE IF S.obj[self].authenticated THEN SendToOthers(S, self, parsed)
    ELSE S

\* Client.parse, lines 416-423, for a line that deserialised.
Dispatch(S, self, parsed) ==
    IF "type" \notin DOMAIN parsed THEN S
    ELSE IF S.obj[self].authenticated THEN SendToOthers(S, self, parsed)
    ELSE IF parsed.type = "join" THEN DoJoin(S, self, parsed)
    ELSE IF parsed.type = "protocol_version" THEN DoProtocolVersion(S, self, parsed)
    ELSE S

\* Client.parse
Parse(S, self, line) ==
    LET S1 == [S EXCEPT !.log = Append(@,
                   [kind |-> "parse", c |-> self, line |-> line,
                    state |-> SessionState(S, self),
                    authed |-> Authenticated(S),
                    table |-> S.clients, objs |-> S.obj])]
    IN  IF Deserialize(line) = ValueError THEN Raise(S1, "ValueError")
        ELSE Dispatch(S1, self, Deserialize(line))

RECURSIVE ParseLoop(_, _, _)
\* Client.handleData, lines 403-411: the loop over the lines of data.
ParseLoop(S, self, data) ==
    IF ~HasNL(data) THEN [S EXCEPT !.obj[self].buffer = @ \o data]
    ELSE LET S1 == Parse(S, self, PartitionLine(data))
         IN  IF S1.exc = "ValueError" THEN Close([S1 EXCEPT !.exc = "none"], self)
             ELSE IF S1.exc # "none" THEN S1
             ELSE ParseLoop(S1, self, PartitionRest(data))

\* Mutant of HandleBytes: the bytes kept from the last read are forgotten.
HandleBytesDropBuffer(S, self, sockData) ==
    IF ~HasNL(sockData) THEN [S EXCEPT !.obj[self].buffer = sockData]
    ELSE ParseLoop([S EXCEPT !.obj[self].buffer = <<>>], self, sockData)

\* Client.handleData, lines 398-411, for a non-empty recv result.
HandleBytes(S, self, sockData) ==
    LET data == S.obj[self].buffer \o sockData
    IN  IF ~HasNL(data) THEN [S EXCEPT !.obj[self].buffer = data]
        ELSE ParseLoop([S EXCEPT !.obj[self].buffer = <<>>], self, data)

\* Client.handleData: recv raises or returns b"" when the peer has gone.
HandleData(S, self, sockData) ==
    IF self \in S.gone \/ sockData = <<>> THEN Close(S, self)
    ELSE HandleBytes(S, self, sockData)

RECURSIVE PingLoop(_, _, _)
\* LocalRelayServer.run, lines 311-313: the ping sweep over the live dict.
\* RemoteMessageType has no member PINGping: the attribute lookup raises.
PingLoop(S, snap, i) ==
    IF S.exc # "none" THEN S
    ELSE IF DictChanged(S, snap) THEN Raise(S, "RuntimeError")
    ELSE IF i > Len(snap) THEN S
    ELSE PingLoop(IF S.obj[snap[i]].authenticated
                  THEN IF "PINGping" \in RemoteMessageType
                       THEN Send(S, snap[i], [type |-> "PINGping"])
                       ELSE Raise(S, "AttributeError")
                  ELSE S, snap, i + 1)

-----------------------------------------------------------------------------
(* Inputs *)

\* The lines a peer writes: the JSON text of a message, or something else.
PeerLines == {Json(m) : m \in PeerMsgs} \cup {Garbage}

RECURSIVE Flatten(_)
\* The lines, each followed by the newline, as one byte string.
Flatten(ls) == IF ls = <<>> THEN <<>> ELSE Head(ls) \o <<NL>> \o Flatten(Tail(ls))

\* One recv result: up to MaxLines whole lines.
ReadInputs ==
    {Flatten(ls) : ls \in UNION {[1..k -> PeerLines] : k \in 1..MaxLines}}

-----------------------------------------------------------------------------
(* The server loop.  run() waits in select ("select"), runs one handler    *)
(* for a ready socket or the ping sweep ("handled": ev, log and pre tell   *)
(* what it did), and goes back to select; an exception that leaves a       *)
(* handler leaves run() ("crashed").                                       *)

\* The state a handler starts from.
Start == [clients |-> clients, obj |-> obj, gone |-> gone, log |-> <<>>, exc |-> "none"]

Idle == [op |-> "idle", c |-> 0, data |-> <<>>]

NoPre == [clients |-> <<>>, obj |-> [c \in {} |-> NewClient], gone |-> {}]

\* The state a handler leaves.  A Client the table no longer refers to is
\* unreachable once its handler has returned.
Commit(S, event) ==
    /\ clients' = S.clients
    /\ obj' = Restrict(S.obj, Range(S.clients))
    /\ gone' = gone \cap Range(S.clients)
    /\ log' = S.log
    /\ ev' = event
    /\ pre' = [clients |-> clients, obj |-> obj, gone |-> gone]
    /\ exc' = S.exc
    /\ loop' = IF S.exc # "none" THEN "crashed" ELSE "handled"

Init ==
    /\ loop = "created"
    /\ running = FALSE
    /\ clients = <<>>
    /\ obj = [c \in {} |-> NewClient]
    /\ nextId = 0
    /\ gone = {}
    /\ now = 0
    /\ lastPingTime = 0
    /\ exc = "none"
    /\ ev = Idle
    /\ log = <<>>
    /\ pre = NoPre
    /\ wire = [c \in Ids |-> <<>>]
    /\ rcvd = [c \in Ids |-> <<>>]
    /\ parsedHist = [c \in Ids |-> <<>>]
    /\ closePc = "idle"
    /\ listening = TRUE
    /\ initPc = [t \in Threads |-> "idle"]
    /\ initTmp = [t \in Threads |-> 0]
    /\ selfId = [t \in Threads |-> 0]
    /\ issued = <<>>
    /\ keyFile = NoFile
    /\ certFile = NoCert
    /\ fpFile = NoFile
    /\ trusted = [localhost |-> 0, loopback |-> 0]
    /\ today = 0
    /\ gens = 0
    /\ certPc = "idle"
    /\ last = NoCall
    /\ transports = <<>>
    /\ leaderTransport = 0
    /\ followerTransport = 0
    /\ leaderSession = 0
    /\ followerSession = 0
    /\ callbacks = {}
    /\ localControlServer = 0
    /\ servers = <<>>
    /\ pins = [a \in {"hostA:6837", "hostB:6838"} |-> None]
    /\ retried = {}
    /\ did = [op |-> "other", t |-> 0, prompted |-> FALSE, answer |-> None]
    /\ sendingKeys = FALSE
    /\ keyModifiers = {}
    /\ hostPendingModifiers = {}
    /\ localScripts = {}
    /\ forwarded = {}
    /\ held = {}
    /\ kev = [op |-> "other", vkCode |-> None, pressed |-> FALSE, sent |-> <<>>,
             ran |-> None, result |-> None]
    /\ isMuted = FALSE
    /\ receivingBraille = FALSE
    /\ cachedSizes = [isNone |-> TRUE, list |-> <<>>]
    /\ displaySize = 0
    /\ queue = <<>>
    /\ mev = [op |-> "other", cells |-> <<>>, value |-> 0, direct |-> {},
             deferred |-> <<>>, result |-> 0]

\* LocalRelayServer.run, lines 294-295
Run ==
    /\ loop = "created"
    /\ loop' = "select"
    /\ running' = TRUE
    /\ lastPingTime' = now
    /\ UNCHANGED <<clients, obj, nextId, gone, now, exc, ev, log, pre,
                   wire, rcvd, parsedHist>>
    /\ UNCHANGED outside

\* LocalRelayServer.run, line 296: back to select after a handler.
LoopAgain ==
    /\ loop = "handled"
    /\ loop' = "select"
    /\ ev' = Idle
    /\ log' = <<>>
    /\ pre' = NoPre
    /\ UNCHANGED <<running, clients, obj, nextId, gone, now, lastPingTime, exc,
                   wire, rcvd, parsedHist>>
    /\ UNCHANGED outside

\* LocalRelayServer.acceptNewConnection, addClient and Client.__init__
AcceptNewConnection ==
    /\ loop = "select"
    /\ running
    /\ listening
    /\ nextId < MaxClients
    /\ nextId' = nextId + 1
    /\ obj' = obj @@ ((nextId + 1) :> NewClient)
    /\ clients' = Append(clients, nextId + 1)
    /\ UNCHANGED <<loop, running, gone, now, lastPingTime, exc, ev, log, pre,
                   wire, rcvd, parsedHist>>
    /\ UNCHANGED outside

\* The peer of a connection goes away (closes, or the connection is reset).
PeerGone(c) ==
    /\ loop = "select"
    /\ c \in Range(clients)
    /\ c \notin gone
    /\ gone' = gone \cup {c}
    /\ UNCHANGED <<loop, running, clients, obj, nextId, now, lastPingTime, exc,
                   ev, log, pre, wire, rcvd, parsedHist>>
    /\ UNCHANGED outside

\* One pass of line 309, self.clients[sock].handleData(), for a ready socket.
HandleDataStep(c, sockData) ==
    /\ loop = "select"
    /\ running
    /\ c \in Range(clients)
    /\ Commit(HandleData(Start, c, sockData),
              [op |-> "handleData", c |-> c,
               data |-> IF c \in gone THEN <<>> ELSE sockData])
    /\ UNCHANGED <<running, nextId, now, lastPingTime>>

\* handleData on what recv returns: the peer has gone, or some bytes arrived.
Read(c) ==
    /\ \E sockData \in (IF c \in gone THEN {<<>>} ELSE ReadInputs) :
           HandleDataStep(c, sockData)
    /\ UNCHANGED <<wire, rcvd, parsedHist>>
    /\ UNCHANGED outside

\* Time passes while select waits.
Advance ==
    /\ loop = "select"
    /\ now + PING_TIME <= MaxTime
    /\ now' = now + PING_TIME
    /\ UNCHANGED <<loop, running, clients, obj, nextId, gone, lastPingTime, exc,
                   ev, log, pre, wire, rcvd, parsedHist>>
    /\ UNCHANGED outside

\* LocalRelayServer.run, lines 310-314: the ping sweep.
PingSweep ==
    /\ loop = "select"
    /\ running
    /\ now - lastPingTime >= PING_TIME
    /\ LET S == PingLoop(Start, clients, 1)
       IN  /\ Commit(S, [op |-> "ping", c |-> 0, data |-> <<>>])
           /\ lastPingTime' = IF S.exc = "none" THEN now ELSE lastPingTime
    /\ UNCHANGED <<running, nextId, now, wire, rcvd, parsedHist>>
    /\ UNCHANGED outside

\* handleData on a recv result of one whole line.
ReadLine(c) ==
    /\ \E l \in PeerLines : HandleDataStep(c, l \o <<NL>>)
    /\ UNCHANGED <<wire, rcvd, parsedHist>>
    /\ UNCHANGED outside

\* The lines handed to Client.parse, in order.
ParsedLines(lg) ==
    LET ps == SelectSeq(lg, LAMBDA e : e.kind = "parse")
    IN  [i \in 1..Len(ps) |-> ps[i].line]

RECURSIVE Written(_)
\* The number of lines the peers of clients 1..n have written so far.
Written(n) ==
    IF n = 0 THEN 0 ELSE Len(Lines(rcvd[n] \o wire[n])) + Written(n - 1)

\* A peer writes a line to its connection.
PeerWrites(c, l) ==
    /\ loop = "select"
    /\ c \in Range(clients)
    /\ c \notin gone
    /\ Written(MaxClients) < MaxStream
    /\ wire' = [wire EXCEPT ![c] = @ \o l \o <<NL>>]
    /\ UNCHANGED <<loop, running, clients, obj, nextId, gone, now, lastPingTime,
                   exc, ev, log, pre, rcvd, parsedHist>>
    /\ UNCHANGED outside

\* handleData on the first n bytes in flight: recv returns what has arrived.
Recv(c, n) ==
    /\ c \notin gone
    /\ n \in 1..Len(wire[c])
    /\ HandleDataStep(c, SubSeq(wire[c], 1, n))
    /\ wire' = [wire EXCEPT ![c] = SubSeq(@, n + 1, Len(@))]
    /\ rcvd' = [rcvd EXCEPT ![c] = @ \o SubSeq(wire[c], 1, n)]
    /\ parsedHist' = [parsedHist EXCEPT ![c] = @ \o ParsedLines(log')]
    /\ UNCHANGED outside

\* handleData when recv fails or returns b"".
RecvGone(c) ==
    /\ c \in gone
    /\ HandleDataStep(c, <<>>)
    /\ UNCHANGED <<wire, rcvd, parsedHist>>
    /\ UNCHANGED outside

\* Whole-line reads of up to MaxLines lines; no clock.
Next ==
    \/ Run
    \/ LoopAgain
    \/ AcceptNewConnection
    \/ \E c \in Ids : PeerGone(c)
    \/ \E c \in Ids : Read(c)

Spec == Init /\ [][Next]_vars

\* The loop with its clock and the ping sweep; reads of one line.
NextPing ==
    \/ Run
    \/ LoopAgain
    \/ AcceptNewConnection
    \/ \E c \in Ids : PeerGone(c)
    \/ \E c \in Ids : ReadLine(c)
    \/ Advance
    \/ PingSweep

SpecPing == Init /\ [][NextPing]_vars

\* The byte streams of the peers, received in pieces of any size.
NextFraming ==
    \/ Run
    \/ LoopAgain
    \/ AcceptNewConnection
    \/ \E c \in Ids : PeerGone(c)
    \/ \E c \in Ids, l \in PeerLines : PeerWrites(c, l)
    \/ \E c \in Ids, n \in 1..(3 * MaxStream) : Recv(c, n)
    \/ \E c \in Ids : RecvGone(c)

SpecFraming == Init /\ [][NextFraming]_vars

-----------------------------------------------------------------------------
(* Reading the log of the last handler *)

Handled == ev.op = "handleData"

IsParse(i) == i \in DOMAIN log /\ log[i].kind = "parse"

IsSend(k) == k \in DOMAIN log /\ log[k].kind = "send"

\* The message of the line parsed at i (ValueError when it is none).
ParsedAt(i) == Deserialize(log[i].line)

IsTyped(m) == m # ValueError /\ "type" \in DOMAIN m

\* The log entries between the parse at i and the next parse: what
\* Client.parse did for that line.
WindowOf(i) ==
    {k \in (i + 1)..Len(log) : \A j \in (i + 1)..k : log[j].kind # "parse"}

\* Entry k writes to client c the message m that a client sent, with the
\* fields it was sent with (origin, clients and client aside).
IsRouted(k, c, m) ==
    /\ IsSend(k)
    /\ log[k].to = c
    /\ Without(log[k].msg, {"origin", "clients", "client"})
           = Without(m, {"origin", "clients", "client"})

\* The authenticated clients of the table after the handler.
AuthenticatedNow == {c \in Range(clients) : obj[c].authenticated}

AuthenticatedBefore == {c \in Range(pre.clients) : pre.obj[c].authenticated}

-----------------------------------------------------------------------------
(* C1: a message with a type field received from an authenticated client   *)
(* A is written to every other client authenticated at that moment, never  *)
(* to A, and never to an unauthenticated client.  (Stated as the claim     *)
(* states it; sendToOthers breaks it when a write fails: see C6.)          *)

C1_BroadcastToAllOthers ==
    Handled =>
        \A i \in DOMAIN log :
            (IsParse(i) /\ log[i].state = "AUTHENTICATED" /\ IsTyped(ParsedAt(i))) =>
                /\ \A c \in log[i].authed \ {ev.c} :
                       \E k \in WindowOf(i) : IsRouted(k, c, ParsedAt(i))
                /\ \A k \in WindowOf(i) :
                       IsSend(k) /\ log[k].msg.type = ParsedAt(i).type =>
                           log[k].to # ev.c /\ log[k].to \in log[i].authed

-----------------------------------------------------------------------------
(* C2: a join with the server password from a session in state NEW makes   *)
(* the session authenticated and writes to it exactly one CHANNEL_JOINED,  *)
(* whose user_ids are exactly the other clients authenticated at that      *)
(* moment (not the joiner, no unauthenticated connection, none twice).     *)

IsGoodJoinAt(i) ==
    /\ IsParse(i)
    /\ log[i].state = "NEW"
    /\ IsTyped(ParsedAt(i))
    /\ ParsedAt(i).type = "join"
    /\ ParsedAt(i).channel = Password

IsChannelJoined(k, c) ==
    IsSend(k) /\ log[k].to = c /\ log[k].msg.type = "CHANNEL_JOINED"

C2_JoinRoster ==
    Handled =>
        \A i \in DOMAIN log :
            IsGoodJoinAt(i) =>
                /\ Cardinality({k \in WindowOf(i) : IsChannelJoined(k, ev.c)}) = 1
                /\ \A k \in WindowOf(i) :
                       IsChannelJoined(k, ev.c) =>
                           /\ log[k].ok
                           /\ log[k].toState = "AUTHENTICATED"
                           /\ Range(log[k].msg.user_ids) = log[i].authed \ {ev.c}
                           /\ Len(log[k].msg.user_ids) = Cardinality(log[i].authed \ {ev.c})

\* A join answered with a roster of one, while a third connection is open
\* and not authenticated.
C2_Witness ==
    /\ Handled
    /\ \E i \in DOMAIN log :
           /\ IsGoodJoinAt(i)
           /\ Cardinality(log[i].authed) = 1
           /\ \E d \in Range(pre.clients) \ {ev.c} : ~pre.obj[d].authenticated
           /\ \E k \in WindowOf(i) : IsChannelJoined(k, ev.c) /\ Len(log[k].msg.user_ids) = 1

-----------------------------------------------------------------------------
(* C3: a join with a wrong password from a session in state NEW is         *)
(* answered by one ERROR, then the connection is closed and the session    *)
(* removed; that client gets exactly one ERROR, and the authenticated      *)
(* clients of the server are the same after the read as before it,         *)
(* whatever else the read holds.                                           *)

IsBadJoinAt(i) ==
    /\ IsParse(i)
    /\ log[i].state = "NEW"
    /\ IsTyped(ParsedAt(i))
    /\ ParsedAt(i).type = "join"
    /\ ParsedAt(i).channel # Password

IsError(k, c) == IsSend(k) /\ log[k].to = c /\ log[k].msg.type = "ERROR"

C3_BadPassword ==
    Handled =>
        \A i \in DOMAIN log :
            IsBadJoinAt(i) =>
                /\ i + 3 <= Len(log)
                /\ IsError(i + 1, ev.c) /\ log[i + 1].ok
                /\ log[i + 1].msg = [type |-> "ERROR", message |-> "incorrect_password"]
                /\ log[i + 2].kind = "close" /\ log[i + 2].c = ev.c
                /\ log[i + 3].kind = "remove" /\ log[i + 3].c = ev.c
                /\ Cardinality({k \in DOMAIN log : IsError(k, ev.c) /\ log[k].ok}) = 1
                /\ ev.c \notin Range(clients)
                /\ AuthenticatedNow = AuthenticatedBefore
                /\ AuthenticatedNow = log[i].authed

\* A wrong-password join followed, in the same read, by a join with the
\* right password, while another client is authenticated.
C3_Witness ==
    /\ Handled
    /\ IsBadJoinAt(1)
    /\ \E j \in DOMAIN log : j > 1 /\ IsParse(j) /\ ParsedAt(j) = MsgJoin(Password, "leader")
    /\ AuthenticatedBefore # {}

-----------------------------------------------------------------------------
(* C4: from a session in state NEW a message of any type but join and      *)
(* protocol_version does nothing: no reply, no close, no change of the     *)
(* server's state; and nothing but ERROR is ever written to a client that  *)
(* is not authenticated (no routed message, CLIENT_JOINED, CLIENT_LEFT or  *)
(* PING).                                                                  *)

IsOtherTypeAt(i) ==
    /\ IsParse(i)
    /\ log[i].state = "NEW"
    /\ IsTyped(ParsedAt(i))
    /\ ParsedAt(i).type \notin {"join", "protocol_version"}

C4_PreAuth ==
    /\ Handled =>
           \A i \in DOMAIN log :
               IsOtherTypeAt(i) =>
                   /\ WindowOf(i) = {}
                   /\ Len(log) = 1 =>
                          /\ clients = pre.clients
                          /\ obj = pre.obj
                          /\ loop = "handled"
    /\ \A k \in DOMAIN log :
           IsSend(k) /\ ~log[k].toAuth => log[k].msg.type = "ERROR"

\* A KEY from a session in state NEW while another client is authenticated.
C4_Witness ==
    /\ Handled
    /\ IsOtherTypeAt(1)
    /\ Len(log) = 1
    /\ AuthenticatedBefore # {}

-----------------------------------------------------------------------------
(* C5: two clients are connected, c1 authenticated as "leader" and c2 as   *)
(* "follower", and c1 sends KEY with vk_code 65 and pressed true.          *)

KeyScenario(c1, c2) ==
    /\ Handled
    /\ c1 # c2
    /\ ev.c = c1
    /\ ev.data = Serialize(MsgKey)
    /\ Range(pre.clients) = {c1, c2}
    /\ pre.gone = {}
    /\ pre.obj[c1].authenticated /\ pre.obj[c1].connectionType = "leader"
    /\ pre.obj[c2].authenticated /\ pre.obj[c2].connectionType = "follower"

IsKeyTo(k, c) ==
    /\ IsSend(k) /\ log[k].to = c /\ log[k].ok
    /\ log[k].msg.type = "KEY" /\ log[k].msg.vk_code = 65 /\ log[k].msg.pressed

\* C5 as stated: c2 is written a KEY with vk_code 65 whose origin is c1's id.
C5_Original ==
    \A c1, c2 \in Ids :
        KeyScenario(c1, c2) =>
            \E k \in DOMAIN log :
                /\ IsKeyTo(k, c2)
                /\ "origin" \in DOMAIN log[k].msg
                /\ log[k].msg.origin = c1

\* C5 as amended: c2 is written exactly one KEY with vk_code 65; it carries
\* origin = c1's id when c2 has declared a protocol version above 1 and no
\* origin field when c2 has the default version 1.
C5_Amended ==
    \A c1, c2 \in Ids :
        KeyScenario(c1, c2) =>
            /\ Cardinality({k \in DOMAIN log : IsKeyTo(k, c2)}) = 1
            /\ \A k \in DOMAIN log :
                   IsKeyTo(k, c2) =>
                       IF pre.obj[c2].protocolVersion > 1
                       THEN "origin" \in DOMAIN log[k].msg /\ log[k].msg.origin = c1
                       ELSE "origin" \notin DOMAIN log[k].msg

\* The scenario with a follower that never sent protocol_version.
C5_Witness ==
    \E c1, c2 \in Ids :
        /\ KeyScenario(c1, c2)
        /\ pre.obj[c2].protocolVersion = 1
        /\ \E k \in DOMAIN log : IsKeyTo(k, c2)

-----------------------------------------------------------------------------
(* C6: when a write to one recipient of a message for several clients      *)
(* fails, run() goes on and every other authenticated recipient whose      *)
(* connection works still gets the message.                                *)

WriteFailedAt(k) == IsSend(k) /\ ~log[k].ok /\ log[k].toState = "AUTHENTICATED"

C6_WriteFailureIsolated ==
    (\E k \in DOMAIN log : WriteFailedAt(k)) =>
        /\ loop # "crashed"
        /\ Handled =>
               \A i \in DOMAIN log :
                   (IsParse(i) /\ log[i].state = "AUTHENTICATED" /\ IsTyped(ParsedAt(i))) =>
                       \A c \in (log[i].authed \ {ev.c}) \ pre.gone :
                           \E k \in WindowOf(i) : IsRouted(k, c, ParsedAt(i)) /\ log[k].ok

-----------------------------------------------------------------------------
(* C7: a session that is closed is removed from the table, and a           *)
(* CLIENT_LEFT with its id is written to every authenticated client that   *)
(* remains if and only if the session had authenticated.                   *)

IsClientLeft(k, c, d) ==
    /\ IsSend(k) /\ log[k].to = d
    /\ log[k].msg.type = "CLIENT_LEFT" /\ log[k].msg.user_id = c

C7_CloseNotifies ==
    \A k \in DOMAIN log :
        (log[k].kind = "close" /\ log[k].inTable) =>
            /\ log[k].c \notin Range(clients)
            /\ \A d \in AuthenticatedNow :
                   (\E j \in DOMAIN log : j > k /\ IsClientLeft(j, log[k].c, d))
                       <=> log[k].auth

-----------------------------------------------------------------------------
(* C8: once a session is closed no further line of it is parsed, nothing   *)
(* more is written to it, and it does not become authenticated.            *)

C8_ClosedIsFinal ==
    /\ \A i \in DOMAIN log : IsParse(i) => log[i].state # "CLOSED"
    /\ \A k \in DOMAIN log : IsSend(k) => log[k].toState # "CLOSED"
    /\ \A k \in DOMAIN log :
           (log[k].kind = "close" /\ ~log[k].auth) =>
               \A j \in DOMAIN log :
                   (j > k /\ IsSend(j) /\ log[j].to = log[k].c) => ~log[j].toAuth

-----------------------------------------------------------------------------
(* C9: what the server parses from a client depends on the bytes received  *)
(* only, not on how they were cut into reads: the lines handed to parse    *)
(* are the newline-terminated lines of the bytes received, each once and   *)
(* in order; for a session the loop still serves they are all of them, and *)
(* the bytes after the last newline are in its buffer.  (Parsing stops     *)
(* where the session is closed or run() ends.)                             *)

IsPrefix(a, b) == Len(a) <= Len(b) /\ SubSeq(b, 1, Len(a)) = a

C9_Framing ==
    \A c \in Ids :
        /\ IsPrefix(parsedHist[c], Lines(rcvd[c]))
        /\ (c \in Range(clients) /\ loop # "crashed") =>
               /\ parsedHist[c] = Lines(rcvd[c])
               /\ obj[c].buffer = Remainder(rcvd[c])

\* A read that completes a line begun in an earlier read and brings a
\* second line with it.
C9_Witness ==
    /\ Handled
    /\ loop = "handled"
    /\ pre.obj[ev.c].buffer # <<>>
    /\ Len(ParsedLines(log)) = 2
    /\ parsedHist[ev.c] = Lines(rcvd[ev.c])

-----------------------------------------------------------------------------
(* C10: a line that fails to parse closes the session at once: no later    *)
(* line of the read is parsed, nothing of that client is forwarded         *)
(* afterwards, and the other sessions stay as they were.                   *)

IsParseErrorAt(i) == IsParse(i) /\ ParsedAt(i) = ValueError

\* What C10 says of the failing client itself.
ClosedAtOnce(i) ==
    /\ \A j \in DOMAIN log : j > i => ~IsParse(j)
    /\ i + 2 <= Len(log)
    /\ log[i + 1] = [kind |-> "raise", exc |-> "ValueError"]
    /\ log[i + 2].kind = "close" /\ log[i + 2].c = ev.c
    /\ ev.c \notin Range(clients)
    /\ \A k \in DOMAIN log : (k > i /\ IsSend(k)) => log[k].msg.type = "CLIENT_LEFT"

\* Session d is as the handler found it when it parsed line i.
Untouched(i, d) == d \in Range(clients) /\ obj[d] = log[i].objs[d]

C10_Original ==
    Handled =>
        \A i \in DOMAIN log :
            IsParseErrorAt(i) =>
                /\ ClosedAtOnce(i)
                /\ \A d \in Range(log[i].table) \ {ev.c} : Untouched(i, d)

-----------------------------------------------------------------------------
(* C11: a ping sweep (a loop tick with at least PING_TIME since the last   *)
(* sweep) sends exactly one PING to each authenticated client and none to  *)
(* an unauthenticated one, and resets the sweep time.                      *)

IsPingTo(k, c) == IsSend(k) /\ log[k].to = c /\ log[k].msg.type = "PING"

C11_PingSweep ==
    ev.op = "ping" =>
        /\ exc = "none"
        /\ lastPingTime = now
        /\ \A c \in Range(pre.clients) :
               Cardinality({k \in DOMAIN log : IsPingTo(k, c)})
                   = IF pre.obj[c].authenticated THEN 1 ELSE 0

-----------------------------------------------------------------------------
(* LocalRelayServer.close, called on another thread than run().            *)

\* LocalRelayServer.close, line 352
CloseFlag ==
    /\ closePc = "idle"
    /\ running' = FALSE
    /\ closePc' = "flagged"
    /\ UNCHANGED <<loop, clients, obj, nextId, gone, now, lastPingTime, exc,
                   ev, log, pre, wire, rcvd, parsedHist, listening>>
    /\ UNCHANGED beside

\* LocalRelayServer.close, lines 353-354
CloseSockets ==
    /\ closePc = "flagged"
    /\ listening' = FALSE
    /\ closePc' = "closed"
    /\ UNCHANGED relayVars
    /\ UNCHANGED beside

\* LocalRelayServer.run, lines 296 and 303-304: the loop sees _running false.
ExitLoop ==
    /\ loop = "select"
    /\ ~running
    /\ loop' = "stopped"
    /\ UNCHANGED <<running, clients, obj, nextId, gone, now, lastPingTime, exc,
                   ev, log, pre, wire, rcvd, parsedHist>>
    /\ UNCHANGED outside

\* LocalRelayServer.run, line 297: select is given a closed listening socket
\* (fileno() is -1) and raises ValueError.
SelectRaises ==
    /\ loop = "select"
    /\ running
    /\ ~listening
    /\ loop' = "crashed"
    /\ exc' = "ValueError"
    /\ UNCHANGED <<running, clients, obj, nextId, gone, now, lastPingTime,
                   ev, log, pre, wire, rcvd, parsedHist>>
    /\ UNCHANGED outside

\* The loop with close() called at any moment by another thread.
NextStop ==
    \/ Run
    \/ LoopAgain
    \/ AcceptNewConnection
    \/ \E c \in Ids : PeerGone(c)
    \/ \E c \in Ids : ReadLine(c)
    \/ CloseFlag
    \/ CloseSockets
    \/ ExitLoop
    \/ SelectRaises

SpecStop == Init /\ [][NextStop]_vars

(* C12: once close() has been called the server is STOPPED for good:       *)
(* _running stays false, no connection is accepted and no socket is        *)
(* served, whenever close() comes relative to the start of run().          *)

C12_StopIsFinal ==
    [][closePc # "idle" =>
          /\ ~running'
          /\ nextId' = nextId
          /\ (ev' = ev \/ ev' = Idle)]_vars

-----------------------------------------------------------------------------
(* The loop fed with every form of protocol_version and of origin.         *)

VersionLines == {Json(m) : m \in PeerMsgs \cup VersionMsgs}

\* handleData on a recv result of one whole line, any of VersionLines.
ReadVersionLine(c) ==
    /\ \E l \in VersionLines : HandleDataStep(c, l \o <<NL>>)
    /\ UNCHANGED <<wire, rcvd, parsedHist>>
    /\ UNCHANGED outside

NextVersion ==
    \/ Run
    \/ LoopAgain
    \/ AcceptNewConnection
    \/ \E c \in Ids : PeerGone(c)
    \/ \E c \in Ids : ReadVersionLine(c)

SpecVersion == Init /\ [][NextVersion]_vars

(* C13: a protocol_version message without a version, or with a falsy one, *)
(* leaves the recorded version as it was; a client whose recorded version  *)
(* is 1 is never written an origin, clients or client field; a client      *)
(* whose recorded version is above 1 is written origin with every routed   *)
(* message.                                                                *)

IsFalsyVersionAt(i) ==
    /\ IsParse(i)
    /\ ParsedAt(i) \in {MsgProtocolVersion(0), MsgProtocolVersionAbsent}

C13_VersionGate ==
    Handled =>
        /\ (IsFalsyVersionAt(1) /\ ev.c \in Range(clients)) =>
               obj[ev.c].protocolVersion = pre.obj[ev.c].protocolVersion
        /\ \A k \in DOMAIN log :
               (IsSend(k) /\ log[k].toVersion = 1) =>
                   DOMAIN log[k].msg \cap {"origin", "clients", "client"} = {}
        /\ \A i \in DOMAIN log :
               (IsParse(i) /\ log[i].state = "AUTHENTICATED" /\ IsTyped(ParsedAt(i))) =>
                   \A k \in WindowOf(i) :
                       (IsRouted(k, log[k].to, ParsedAt(i)) /\ log[k].toVersion > 1) =>
                           "origin" \in DOMAIN log[k].msg

-----------------------------------------------------------------------------
(* Client.__init__, lines 381-384, run by the threads of several relay     *)
(* servers of one process.  Client.id is a class attribute shared by all   *)
(* of them and no lock guards it: the statements of the threads            *)
(* interleave, and "Client.id += 1" is a load followed by a store.         *)

\* What a thread constructing a Client leaves alone.
IdFrame ==
    /\ UNCHANGED <<loop, running, clients, obj, gone, now, lastPingTime, exc,
                   ev, log, pre, wire, rcvd, parsedHist>>
    /\ UNCHANGED <<stopVars, certVars, clientVars, keyVars, machineVars>>

\* line 381: self.id = Client.id + 1
InitAssignId(t) ==
    /\ initPc[t] = "idle"
    /\ Len(issued) + Cardinality({u \in Threads : initPc[u] # "idle"}) < MaxIssued
    /\ selfId' = [selfId EXCEPT ![t] = nextId + 1]
    /\ initPc' = [initPc EXCEPT ![t] = "assigned"]
    /\ UNCHANGED <<nextId, initTmp, issued>>
    /\ IdFrame

\* line 384, Client.id += 1: the load of Client.id
InitLoadId(t) ==
    /\ initPc[t] = "assigned"
    /\ initTmp' = [initTmp EXCEPT ![t] = nextId]
    /\ initPc' = [initPc EXCEPT ![t] = "loaded"]
    /\ UNCHANGED <<nextId, selfId, issued>>
    /\ IdFrame

\* line 384, Client.id += 1: the store; the constructor returns.
InitStoreId(t) ==
    /\ initPc[t] = "loaded"
    /\ nextId' = initTmp[t] + 1
    /\ issued' = Append(issued, selfId[t])
    /\ initPc' = [initPc EXCEPT ![t] = "idle"]
    /\ UNCHANGED <<initTmp, selfId>>
    /\ IdFrame

NextIds ==
    \/ \E t \in Threads : InitAssignId(t)
    \/ \E t \in Threads : InitLoadId(t)
    \/ \E t \in Threads : InitStoreId(t)

SpecIds == Init /\ [][NextIds]_vars

(* C14: every Client gets an id greater than every id handed out before,   *)
(* so no two Clients share an id, also when several relay servers accept   *)
(* connections on their own threads.                                       *)

C14_UniqueIds ==
    \A i, j \in DOMAIN issued : i < j => issued[i] < issued[j]

-----------------------------------------------------------------------------
(* RemoteCertificateManager.ensureValidCertExists.  The call decides at    *)
(* once whether to generate; _generateSelfSignedCert then writes the key,  *)
(* the certificate, the fingerprint and the configuration one after the    *)
(* other, and the process can stop between any two of the writes.          *)

\* The instants of the model: the day of the first certificate, the half
\* days at its renewal threshold (31, 30.5 and 30 days left), and its expiry.
KeepEdge == (CERT_DURATION_DAYS - CERT_RENEWAL_THRESHOLD_DAYS - 1) * HalfDaysPerDay

Expiry == CERT_DURATION_DAYS * HalfDaysPerDay

Instants == {0, KeepEdge, KeepEdge + 1, KeepEdge + 2, Expiry}

\* The three files as they are.
Files == [key |-> keyFile, cert |-> certFile, fp |-> fpFile]

\* _filesExist
FilesExist(cert, key) == cert.state # "absent" /\ key.state # "absent"

\* timedelta.days of a span of half days
DaysOf(span) == span \div HalfDaysPerDay

\* Mutant of ValidateCertificate: the renewal threshold is not looked at.
ValidateNoThreshold(cert, key, t) ==
    IF cert.state # "ok" THEN "ValueError"
    ELSE IF t >= cert.notAfter \/ t < cert.notBefore THEN "ValueError"
    ELSE IF key.state = "corrupt" THEN "ValueError"
    ELSE IF key.state = "encrypted" THEN "TypeError"
    ELSE "none"

\* _validateCertificate: the exception it raises, "none" when it returns.
ValidateCertificate(cert, key, t) ==
    IF cert.state # "ok" THEN "ValueError"
    ELSE IF t >= cert.notAfter \/ t < cert.notBefore THEN "ValueError"
    ELSE IF DaysOf(cert.notAfter - t) <= CERT_RENEWAL_THRESHOLD_DAYS THEN "ValueError"
    ELSE IF key.state = "corrupt" THEN "ValueError"
    ELSE IF key.state = "encrypted" THEN "TypeError"
    ELSE "none"

\* Mutant of OnValidationError: the exception is let through.
OnValidationErrorRaise(e) == [generate |-> FALSE, propagated |-> e]

\* ensureValidCertExists, lines 81-83: except Exception
OnValidationError(e) == [generate |-> TRUE, propagated |-> "none"]

\* Mutant of Decide: a certificate is generated on every call.
DecideAlways(cert, key, t) ==
    [generate |-> TRUE, propagated |-> "none", raised |-> "none"]

\* ensureValidCertExists, lines 75-83: should_generate
Decide(cert, key, t) ==
    IF ~FilesExist(cert, key)
    THEN [generate |-> TRUE, propagated |-> "none", raised |-> "none"]
    ELSE LET e == ValidateCertificate(cert, key, t)
         IN  IF e = "none"
             THEN [generate |-> FALSE, propagated |-> "none", raised |-> "none"]
             ELSE OnValidationError(e) @@ [raised |-> e]

\* What the certificate manager's steps leave alone.
CertFrame == UNCHANGED <<relayVars, stopVars, idVars, clientVars, keyVars, machineVars>>

\* ensureValidCertExists up to line 85; it returns there unless it generates.
EnsureValidCertExists ==
    /\ certPc = "idle"
    /\ LET d == Decide(certFile, keyFile, today)
       IN  /\ d.generate => gens < MaxGens
           /\ last' = [op |-> IF d.generate THEN "generating" ELSE "ensure",
                       prevOp |-> last.op, generated |-> d.generate,
                       raised |-> d.raised, propagated |-> d.propagated,
                       at |-> today, pre |-> Files]
           /\ certPc' = IF d.generate THEN "writeKey" ELSE "idle"
           /\ gens' = IF d.generate THEN gens + 1 ELSE gens
    /\ UNCHANGED <<keyFile, certFile, fpFile, trusted, today>>
    /\ CertFrame

\* _generateSelfSignedCert, lines 165-172
WriteKey ==
    /\ certPc = "writeKey"
    /\ keyFile' = [gen |-> gens, state |-> "ok"]
    /\ certPc' = "writeCert"
    /\ UNCHANGED <<certFile, fpFile, trusted, today, gens, last>>
    /\ CertFrame

\* _generateSelfSignedCert, lines 141-146 and 175-176
WriteCert ==
    /\ certPc = "writeCert"
    /\ certFile' = [gen |-> gens, state |-> "ok", notBefore |-> today,
                    notAfter |-> today + CERT_DURATION_DAYS * HalfDaysPerDay]
    /\ certPc' = "writeFingerprint"
    /\ UNCHANGED <<keyFile, fpFile, trusted, today, gens, last>>
    /\ CertFrame

\* _generateSelfSignedCert, lines 163 and 179-180
WriteFingerprint ==
    /\ certPc = "writeFingerprint"
    /\ fpFile' = [gen |-> gens, state |-> "ok"]
    /\ certPc' = "trust"
    /\ UNCHANGED <<keyFile, certFile, trusted, today, gens, last>>
    /\ CertFrame

\* _generateSelfSignedCert, lines 183-187; ensureValidCertExists returns.
TrustLoopback ==
    /\ certPc = "trust"
    /\ trusted' = [localhost |-> gens, loopback |-> gens]
    /\ certPc' = "idle"
    /\ last' = [last EXCEPT !.op = "ensure"]
    /\ UNCHANGED <<keyFile, certFile, fpFile, today, gens>>
    /\ CertFrame

\* The process stops inside _generateSelfSignedCert and is started again.
Interrupt ==
    /\ certPc \in {"writeCert", "writeFingerprint", "trust"}
    /\ certPc' = "idle"
    /\ last' = [NoCall EXCEPT !.op = "interrupted"]
    /\ UNCHANGED <<keyFile, certFile, fpFile, trusted, today, gens>>
    /\ CertFrame

\* One of the three files is deleted.
DeleteFile(f) ==
    /\ certPc = "idle"
    /\ Files[f].state # "absent"
    /\ keyFile' = IF f = "key" THEN NoFile ELSE keyFile
    /\ certFile' = IF f = "cert" THEN NoCert ELSE certFile
    /\ fpFile' = IF f = "fp" THEN NoFile ELSE fpFile
    /\ last' = [NoCall EXCEPT !.op = "delete"]
    /\ UNCHANGED <<trusted, today, gens, certPc>>
    /\ CertFrame

\* The key file gets a content load_pem_private_key cannot load.
SpoilKey(how) ==
    /\ certPc = "idle"
    /\ keyFile.state = "ok"
    /\ keyFile' = [keyFile EXCEPT !.state = how]
    /\ last' = [NoCall EXCEPT !.op = "spoil"]
    /\ UNCHANGED <<certFile, fpFile, trusted, today, gens, certPc>>
    /\ CertFrame

\* The certificate file gets a content load_pem_x509_certificate cannot load.
SpoilCert ==
    /\ certPc = "idle"
    /\ certFile.state = "ok"
    /\ certFile' = [certFile EXCEPT !.state = "corrupt"]
    /\ last' = [NoCall EXCEPT !.op = "spoil"]
    /\ UNCHANGED <<keyFile, fpFile, trusted, today, gens, certPc>>
    /\ CertFrame

\* The clock is at another instant: later, or set back.
SetClock(t) ==
    /\ certPc = "idle"
    /\ t # today
    /\ today' = t
    /\ last' = [NoCall EXCEPT !.op = "clock"]
    /\ UNCHANGED <<keyFile, certFile, fpFile, trusted, gens, certPc>>
    /\ CertFrame

NextCert ==
    \/ EnsureValidCertExists
    \/ WriteKey
    \/ WriteCert
    \/ WriteFingerprint
    \/ TrustLoopback
    \/ Interrupt
    \/ \E f \in {"key", "cert", "fp"} : DeleteFile(f)
    \/ \E how \in {"corrupt", "encrypted"} : SpoilKey(how)
    \/ SpoilCert
    \/ \E t \in Instants : SetClock(t)

SpecCert == Init /\ [][NextCert]_vars

-----------------------------------------------------------------------------
(* Reading the last call of ensureValidCertExists *)

Returned == last.op = "ensure"

\* A certificate was generated by the last call, complete and valid for
\* CERT_DURATION_DAYS from the moment of the call.
GeneratedNew ==
    /\ last.generated
    /\ gens > last.pre.cert.gen
    /\ keyFile = [gen |-> gens, state |-> "ok"]
    /\ certFile.gen = gens /\ certFile.state = "ok"
    /\ certFile.notBefore = last.at
    /\ certFile.notAfter - certFile.notBefore = CERT_DURATION_DAYS * HalfDaysPerDay

\* The last call kept what it found.
KeptExisting == ~last.generated /\ keyFile = last.pre.key /\ certFile = last.pre.cert

(* C15: a call of ensureValidCertExists that follows another one, with no  *)
(* file deleted in between, generates nothing and leaves key, certificate  *)
(* and fingerprint as they are; a call that finds the certificate file or  *)
(* the key file deleted generates a new certificate.                       *)

C15_GenerateOnce ==
    /\ (Returned /\ last.prevOp = "ensure") => (~last.generated /\ Files = last.pre)
    /\ (Returned /\ (last.pre.cert.state = "absent" \/ last.pre.key.state = "absent")) =>
           GeneratedNew

\* The second of two calls in succession, the first of which generated
\* the certificate.
C15_Witness ==
    /\ Returned
    /\ last.prevOp = "ensure"
    /\ gens = 1
    /\ certFile.gen = 1 /\ keyFile.gen = 1 /\ fpFile.gen = 1

(* C16: the existing certificate is kept exactly when both files exist,    *)
(* the time is inside the validity window, the time left is above the      *)
(* renewal threshold and the key loads; otherwise a certificate valid for  *)
(* 365 days is generated.                                                  *)

InWindow(cert, t) == cert.state = "ok" /\ cert.notBefore <= t /\ t < cert.notAfter

\* Both files exist, the window holds and the key loads.
KeepBasics(found, t) ==
    /\ FilesExist(found.cert, found.key)
    /\ InWindow(found.cert, t)
    /\ found.key.state = "ok"

\* C16 as stated: more than 30 days remain.
C16_Original ==
    Returned =>
        IF /\ KeepBasics(last.pre, last.at)
           /\ last.pre.cert.notAfter - last.at > CERT_RENEWAL_THRESHOLD_DAYS * HalfDaysPerDay
        THEN KeptExisting
        ELSE GeneratedNew

\* C16 as amended: more than 30 whole days remain, that is at least 31 days.
C16_Amended ==
    Returned =>
        IF /\ KeepBasics(last.pre, last.at)
           /\ last.pre.cert.notAfter - last.at
                  >= (CERT_RENEWAL_THRESHOLD_DAYS + 1) * HalfDaysPerDay
        THEN KeptExisting
        ELSE GeneratedNew

\* A call that finds a loadable key and a certificate with 30 days and a
\* half left.
C16_Witness ==
    /\ Returned
    /\ KeepBasics(last.pre, last.at)
    /\ last.pre.cert.notAfter - last.at = CERT_RENEWAL_THRESHOLD_DAYS * HalfDaysPerDay + 1

(* C17: an exception raised by the validation of the existing certificate  *)
(* never leaves ensureValidCertExists: the call generates a new            *)
(* certificate and returns.                                                *)

C17_ValidationErrorRegenerates ==
    /\ last.propagated = "none"
    /\ (Returned /\ last.raised # "none") => GeneratedNew

\* A call that found a key load_pem_private_key raises TypeError for.
C17_Witness ==
    /\ Returned
    /\ last.raised = "TypeError"
    /\ last.pre.key.state = "encrypted"

(* C18: when ensureValidCertExists has returned, the fingerprint file and  *)
(* the trusted entries of localhost and 127.0.0.1 are those of the         *)
(* certificate on disk.                                                    *)

C18_FingerprintAgrees ==
    Returned =>
        /\ certFile.state = "ok"
        /\ fpFile = [gen |-> certFile.gen, state |-> "ok"]
        /\ trusted = [localhost |-> certFile.gen, loopback |-> certFile.gen]

(* C19: generation is atomic for whoever reads the files: at no moment,    *)
(* and in particular not after a generation that was interrupted and a     *)
(* following ensureValidCertExists, do key, certificate and fingerprint    *)
(* on disk come from different generations.                                *)

C19_GenerationAtomic ==
    \A f, g \in {"key", "cert", "fp"} :
        (Files[f].state = "ok" /\ Files[g].state = "ok") => Files[f].gen = Files[g].gen

-----------------------------------------------------------------------------
(* RemoteClient (client.py): connect, disconnect and the callbacks of the  *)
(* transports' events, which alwaysCallAfter queues for the main thread.   *)
(* A transport is its index in transports; a session is known by the       *)
(* transport it was made with, and closing a session closes its transport  *)
(* and stops its reconnector.  A relay server started by                   *)
(* startControlServer is its index in servers, TRUE while it runs.         *)

\* The connections the user asks for: a host, a port and a channel key.
Hosts == {"hostA", "hostB"}

PortOf(hostname) == IF hostname = "hostA" THEN 6837 ELSE 6838

KeyOf(hostname) == IF hostname = "hostA" THEN "key1" ELSE "key2"

ConnectionInfo(mode, hostname, port, key, insecure) ==
    [mode |-> mode, hostname |-> hostname, port |-> port, key |-> key,
     insecure |-> insecure]

\* What the connect dialog and the URL handler hand to connect().
UserConnections ==
    {ConnectionInfo(mode, h, PortOf(h), KeyOf(h), FALSE) :
        mode \in {"leader", "follower"}, h \in Hosts}

\* protocol.hostPortToAddress: the key of a pinned fingerprint
hostPortToAddress(address) == address[1] \o ":" \o ToString(address[2])

Addresses == {hostPortToAddress(<<h, PortOf(h)>>) : h \in Hosts}

\* The fingerprint of the certificate the relay at an address presents.
PeerFingerprint(address) == "sha256 of " \o address[1]

\* The answers of CertificateUnauthorizedDialog.ShowModal
Answers == {"ID_YES", "ID_NO", "ID_CANCEL"}

NoOp == [op |-> "other", t |-> 0, prompted |-> FALSE, answer |-> None]

\* No key handler ran: nothing sent, no script run, nothing returned.
NoKey ==
    [op |-> "other", vkCode |-> None, pressed |-> FALSE, sent |-> <<>>, ran |-> None,
     result |-> None]

\* No command of LocalMachine ran.
NoCommand ==
    [op |-> "other", cells |-> <<>>, value |-> 0, direct |-> {}, deferred |-> <<>>,
     result |-> 0]

\* What the connection handlers of RemoteClient leave alone.
ClientFrame ==
    /\ UNCHANGED <<relayVars, stopVars, idVars, certVars>>
    /\ UNCHANGED <<sendingKeys, keyModifiers, hostPendingModifiers, localScripts,
                   forwarded, held>>
    /\ UNCHANGED <<isMuted, receivingBraille, cachedSizes, displaySize, queue>>
    /\ kev' = NoKey
    /\ mev' = NoCommand

\* RelayTransport.create and reconnectorThread.start()
NewTransport(connectionInfo) ==
    [role |-> connectionInfo.mode, closed |-> FALSE, successfulConnects |-> 0,
     address |-> <<connectionInfo.hostname, connectionInfo.port>>,
     channel |-> connectionInfo.key, insecure |-> connectionInfo.insecure,
     lastFailFingerprint |-> None]

\* LeaderSession.close / FollowerSession.close on the session of transport t
CloseSession(ts, t) == IF t = 0 THEN ts ELSE [ts EXCEPT ![t].closed = TRUE]

\* The fields of RemoteClient the connect and disconnect methods work on.
Fields ==
    [transports |-> transports, leaderTransport |-> leaderTransport,
     followerTransport |-> followerTransport, leaderSession |-> leaderSession,
     followerSession |-> followerSession, localControlServer |-> localControlServer,
     servers |-> servers, callbacks |-> callbacks]

Assign(F) ==
    /\ transports' = F.transports
    /\ leaderTransport' = F.leaderTransport
    /\ followerTransport' = F.followerTransport
    /\ leaderSession' = F.leaderSession
    /\ followerSession' = F.followerSession
    /\ localControlServer' = F.localControlServer
    /\ servers' = F.servers
    /\ callbacks' = F.callbacks

\* RemoteClient.connectAsLeader
ConnectAsLeader(F, connectionInfo) ==
    [F EXCEPT !.transports = Append(F.transports, NewTransport(connectionInfo)),
              !.leaderSession = Len(F.transports) + 1,
              !.leaderTransport = Len(F.transports) + 1]

\* RemoteClient.connectAsFollower
ConnectAsFollower(F, connectionInfo) ==
    [F EXCEPT !.transports = Append(F.transports, NewTransport(connectionInfo)),
              !.followerSession = Len(F.transports) + 1,
              !.followerTransport = Len(F.transports) + 1]

\* RemoteClient.connect
connect(F, connectionInfo) ==
    IF connectionInfo.mode = "leader" THEN ConnectAsLeader(F, connectionInfo)
    ELSE ConnectAsFollower(F, connectionInfo)

\* RemoteClient.disconnectAsLeader; the transport's transportClosing queues
\* onDisconnectingAsLeader.
disconnectAsLeader(F) ==
    [F EXCEPT !.transports = CloseSession(F.transports, F.leaderSession),
              !.leaderSession = 0,
              !.leaderTransport = 0,
              !.callbacks = F.callbacks \cup {[name |-> "onDisconnectingAsLeader", t |-> 0]}]

\* RemoteClient.disconnectAsFollower
disconnectAsFollower(F) ==
    [F EXCEPT !.transports = CloseSession(F.transports, F.followerSession),
              !.followerSession = 0,
              !.followerTransport = 0]

\* LocalRelayServer.close on RemoteClient.localControlServer
CloseControlServer(F) ==
    IF F.localControlServer = 0 THEN F
    ELSE [F EXCEPT !.servers[F.localControlServer] = FALSE,
                   !.localControlServer = 0]

disconnectAlways(F) ==
    LET A == CloseControlServer(F)
        B == IF A.leaderSession # 0 THEN disconnectAsLeader(A) ELSE A
    IN  IF B.followerSession # 0 THEN disconnectAsFollower(B) ELSE B

\* RemoteClient.disconnect
disconnect(F) ==
    IF F.leaderSession = 0 /\ F.followerSession = 0 THEN F
    ELSE disconnectAlways(F)

\* RemoteClient.startControlServer
startControlServer(F) ==
    [F EXCEPT !.servers = Append(F.servers, TRUE),
              !.localControlServer = Len(F.servers) + 1]

\* connect() called by the handlers of the menu, the URL handler and
\* autoconnect.
Connect(connectionInfo) ==
    /\ Len(transports) < MaxTransports
    /\ Assign(connect(Fields, connectionInfo))
    /\ did' = NoOp
    /\ UNCHANGED <<pins, retried>>
    /\ ClientFrame

\* doConnect's handleDialogCompletion with "server" selected: host the relay
\* and connect to it.
HostAndConnect(connectionInfo) ==
    /\ Len(transports) < MaxTransports
    /\ Len(servers) < MaxServers
    /\ Assign(connect(startControlServer(Fields), connectionInfo))
    /\ did' = NoOp
    /\ UNCHANGED <<pins, retried>>
    /\ ClientFrame

\* disconnect() called by the handlers of the menu and of the gestures.
Disconnect ==
    /\ Assign(disconnect(Fields))
    /\ did' = [NoOp EXCEPT !.op = "disconnect"]
    /\ UNCHANGED <<pins, retried>>
    /\ ClientFrame

\* A transport's reconnector connects.
TransportConnected(t) ==
    /\ t \in DOMAIN transports
    /\ ~transports[t].closed
    /\ transports[t].successfulConnects = 0
    /\ transports' = [transports EXCEPT ![t].successfulConnects = 1]
    /\ did' = NoOp
    /\ UNCHANGED <<leaderTransport, followerTransport, leaderSession, followerSession,
                   callbacks, localControlServer, servers, pins, retried>>
    /\ ClientFrame

\* A leader transport that never connected fails to connect:
\* transportConnectionFailed queues onConnectAsLeaderFailed.
ConnectionFails(t) ==
    /\ t \in DOMAIN transports
    /\ ~transports[t].closed
    /\ transports[t].role = "leader"
    /\ transports[t].successfulConnects = 0
    /\ Cardinality(callbacks) < MaxCallbacks
    /\ callbacks' = callbacks \cup {[name |-> "onConnectAsLeaderFailed", t |-> 0]}
    /\ did' = NoOp
    /\ UNCHANGED <<transports, leaderTransport, followerTransport, leaderSession,
                   followerSession, localControlServer, servers, pins, retried>>
    /\ ClientFrame

\* A transport's peer certificate is not trusted: the transport keeps its
\* fingerprint and transportCertificateAuthenticationFailed queues the
\* role's callback.
CertificateFails(t) ==
    /\ t \in DOMAIN transports
    /\ ~transports[t].closed
    /\ Cardinality(callbacks) < MaxCallbacks
    /\ transports' = [transports EXCEPT
           ![t].lastFailFingerprint = PeerFingerprint(transports[t].address)]
    /\ callbacks' = callbacks \cup
           {[name |-> IF transports[t].role = "leader" THEN "onLeaderCertificateFailed"
                                                       ELSE "onSlaveCertificateFailed",
             t |-> t]}
    /\ did' = NoOp
    /\ UNCHANGED <<leaderTransport, followerTransport, leaderSession,
                   followerSession, localControlServer, servers, pins, retried>>
    /\ ClientFrame

\* The main thread takes a queued callback.
Taken(cb) == [Fields EXCEPT !.callbacks = callbacks \ {cb}]

\* RemoteClient.onConnectAsLeaderFailed, run on the main thread.  With
\* leaderTransport None the attribute access raises and nothing is done.
OnConnectAsLeaderFailed(cb) ==
    /\ cb \in callbacks
    /\ cb.name = "onConnectAsLeaderFailed"
    /\ IF leaderTransport # 0 /\ transports[leaderTransport].successfulConnects = 0
       THEN Assign(disconnectAsLeader(Taken(cb)))
       ELSE Assign(Taken(cb))
    /\ did' = NoOp
    /\ UNCHANGED <<pins, retried>>
    /\ ClientFrame

\* handleCertificateFailure's answer: connect again or not
Reconnects(a) == a = "ID_YES" \/ a = "ID_NO"

\* RemoteClient.onLeaderCertificateFailed and onSlaveCertificateFailed with
\* handleCertificateFailure, run on the main thread: disconnect, ask, pin the
\* fingerprint when the answer is yes, connect again when it is yes or no.
\* The transport asked about is the one of the role's session when the
\* callback runs; with the session None the attribute access raises and
\* nothing is done.
OnCertificateFailed(cb, a) ==
    LET role == IF cb.name = "onLeaderCertificateFailed" THEN "leader" ELSE "follower"
        session == IF role = "leader" THEN leaderSession ELSE followerSession
        transport == transports[session]
        lastFailAddress == transport.address
        lastFailKey == transport.channel
        certHash == transport.lastFailFingerprint
        connectionInfo == ConnectionInfo(role, lastFailAddress[1], lastFailAddress[2],
                                         lastFailKey, TRUE)
    IN  /\ cb \in callbacks
        /\ cb.name \in {"onLeaderCertificateFailed", "onSlaveCertificateFailed"}
        /\ IF session = 0
           THEN /\ Assign(Taken(cb))
                /\ did' = [NoOp EXCEPT !.op = "certificateFailed", !.t = cb.t]
                /\ UNCHANGED <<pins, retried>>
           ELSE /\ Reconnects(a) => Len(transports) < MaxTransports
                /\ pins' = IF a = "ID_YES"
                           THEN [pins EXCEPT ![hostPortToAddress(lastFailAddress)] = certHash]
                           ELSE pins
                /\ Assign(IF Reconnects(a) THEN connect(disconnect(Taken(cb)), connectionInfo)
                          ELSE disconnect(Taken(cb)))
                /\ retried' = IF Reconnects(a) THEN retried \cup {Len(transports) + 1}
                              ELSE retried
                /\ did' = [op |-> "certificateFailed", t |-> cb.t, prompted |-> TRUE,
                           answer |-> a]
        /\ ClientFrame

\* RemoteClient.onDisconnectingAsLeader, run on the main thread.
OnDisconnectingAsLeader(cb) ==
    /\ cb \in callbacks
    /\ cb.name = "onDisconnectingAsLeader"
    /\ Assign(Taken(cb))
    /\ isMuted' = FALSE
    /\ sendingKeys' = FALSE
    /\ keyModifiers' = {}
    /\ forwarded' = {}
    /\ held' = {}
    /\ kev' = [NoKey EXCEPT !.op = "disconnecting"]
    /\ did' = NoOp
    /\ mev' = NoCommand
    /\ UNCHANGED <<pins, retried, hostPendingModifiers, localScripts,
                   receivingBraille, cachedSizes, displaySize, queue>>
    /\ UNCHANGED <<relayVars, stopVars, idVars, certVars>>

NextClient ==
    \/ \E connectionInfo \in UserConnections : Connect(connectionInfo)
    \/ \E connectionInfo \in UserConnections : HostAndConnect(connectionInfo)
    \/ Disconnect
    \/ \E t \in 1..MaxTransports : TransportConnected(t)
    \/ \E t \in 1..MaxTransports : ConnectionFails(t)
    \/ \E t \in 1..MaxTransports : CertificateFails(t)
    \/ \E cb \in callbacks : OnConnectAsLeaderFailed(cb)
    \/ \E cb \in callbacks, a \in Answers : OnCertificateFailed(cb, a)
    \/ \E cb \in callbacks : OnDisconnectingAsLeader(cb)

SpecClient == Init /\ [][NextClient]_vars

(* C20: of the transports of a role whose reconnector has been started, at *)
(* most one is not closed, and it is the one RemoteClient holds for the    *)
(* role.                                                                   *)

LiveTransports(role) ==
    {t \in DOMAIN transports : transports[t].role = role /\ ~transports[t].closed}

C20_OneTransportPerRole ==
    /\ LiveTransports("leader") \subseteq {leaderTransport}
    /\ LiveTransports("follower") \subseteq {followerTransport}


(* C21: after disconnect() has returned, no leader or follower session, no *)
(* transport and no relay server started by this client is still live,     *)
(* whatever came before; and called with nothing connected, disconnect()   *)
(* changes no state.                                                       *)

LiveServers == {s \in DOMAIN servers : servers[s]}

NothingLive ==
    /\ leaderSession = 0
    /\ followerSession = 0
    /\ leaderTransport = 0
    /\ followerTransport = 0
    /\ LiveTransports("leader") = {}
    /\ LiveTransports("follower") = {}
    /\ localControlServer = 0
    /\ LiveServers = {}

C21_DisconnectLeavesNothing ==
    [][did'.op = "disconnect" =>
          /\ NothingLive'
          /\ (leaderSession = 0 /\ followerSession = 0) =>
                 UNCHANGED <<transports, leaderTransport, followerTransport,
                             leaderSession, followerSession, callbacks,
                             localControlServer, servers, pins>>]_vars


(* C22: when the trust prompt of a certificate failure is answered no or   *)
(* is cancelled, no new connection is started and no fingerprint is        *)
(* stored.                                                                 *)

Prompted(answers) ==
    /\ did'.op = "certificateFailed"
    /\ did'.prompted
    /\ did'.answer \in answers

C22_DeclinedAbandons ==
    [][Prompted({"ID_NO", "ID_CANCEL"}) =>
          /\ Len(transports') = Len(transports)
          /\ pins' = pins]_vars

(* C23: when the trust prompt is answered yes, the fingerprint of the      *)
(* connection that failed is stored for its host:port, and exactly one new *)
(* connection is started, with the role, host, port and channel key of the *)
(* failed one and the insecure flag set.                                   *)

RetryOf(failed, new) ==
    /\ new.role = failed.role
    /\ new.address = failed.address
    /\ new.channel = failed.channel
    /\ new.insecure
    /\ ~new.closed

C23_TrustedRetries ==
    [][Prompted({"ID_YES"}) =>
          /\ pins'[hostPortToAddress(transports[did'.t].address)] =
                 transports[did'.t].lastFailFingerprint
          /\ Len(transports') = Len(transports) + 1
          /\ RetryOf(transports[did'.t], transports'[Len(transports')])]_vars

(* C24: there is at most one automatic retry: when the connection made by  *)
(* the retry reports a certificate failure again, there is no other prompt *)
(* and no other retry.                                                     *)

C24_RetryOnce ==
    [][(did'.op = "certificateFailed" /\ did'.t \in retried) =>
          /\ ~did'.prompted
          /\ Len(transports') = Len(transports)]_vars


-----------------------------------------------------------------------------
(* RemoteClient (client.py): the forwarding of keys.  processKeyInput is   *)
(* the decider of every raw key event; toggleRemoteKeyControl is the       *)
(* script that turns the forwarding on and off.                            *)

Modifiers == {"VK_SHIFT", "VK_CONTROL"}

VkCodes == Modifiers \cup {"VK_A", "VK_F11"}

\* KeyModifier: (vk_code, extended)
KeyCode(vkCode) == <<vkCode, FALSE>>

\* KeyboardInputGesture.isModifier
IsModifier(vkCode) == vkCode \in Modifiers

\* KeyboardInputGesture.script: the script bound to the gesture, if any
ScriptOf(modifiers, vkCode) ==
    IF vkCode = "VK_F11" /\ modifiers = {} THEN "script_sendKeys" ELSE None

Scripts == {"script_sendKeys"}

\* The KEY message of processKeyInput and of releaseKeys
KeyMessage(keyCode, pressed) ==
    [type |-> "key", vk_code |-> keyCode[1], extended |-> keyCode[2],
     pressed |-> pressed]

RECURSIVE ReleaseAll(_)
\* releaseKeys: one KEY message with pressed False for each key of the set
ReleaseAll(keys) ==
    IF keys = {} THEN <<>>
    ELSE LET k == CHOOSE x \in keys : TRUE
         IN  <<KeyMessage(k, FALSE)>> \o ReleaseAll(keys \ {k})

\* releaseKeys with each key's release left out
ReleaseNone(keys) == <<>>

\* RemoteClient.releaseKeys: the messages it sends
releaseKeys(keys) == ReleaseAll(keys)

\* What the key handlers leave alone.
KeyFrame ==
    /\ UNCHANGED <<relayVars, stopVars, idVars, certVars, clientVars>>
    /\ UNCHANGED <<cachedSizes, displaySize, queue>>
    /\ mev' = NoCommand

\* keyModifiers after a key event that was not returned early
Tracked(mods, vkCode, pressed) ==
    IF ~IsModifier(vkCode) THEN mods
    ELSE IF pressed THEN mods \cup {KeyCode(vkCode)}
    ELSE mods \ {KeyCode(vkCode)}

\* RemoteClient.processKeyInput for one raw key event.  With leaderTransport
\* None the send raises AttributeError after the modifier was tracked.
ProcessKeyInput(vkCode, pressed) ==
    LET keyCode == KeyCode(vkCode)
        script == ScriptOf(keyModifiers, vkCode)
        obs == [NoKey EXCEPT !.op = "key", !.vkCode = vkCode, !.pressed = pressed]
    IN  /\ IF ~sendingKeys
           THEN /\ kev' = [obs EXCEPT !.result = "True"]
                /\ UNCHANGED <<keyModifiers, hostPendingModifiers, forwarded, held>>
           ELSE IF ~pressed /\ keyCode \in hostPendingModifiers
           THEN /\ hostPendingModifiers' = hostPendingModifiers \ {keyCode}
                /\ kev' = [obs EXCEPT !.result = "True"]
                /\ UNCHANGED <<keyModifiers, forwarded, held>>
           ELSE IF ~IsModifier(vkCode) /\ pressed /\ script \in localScripts
           THEN /\ kev' = [obs EXCEPT !.ran = script, !.result = "False"]
                /\ UNCHANGED <<keyModifiers, hostPendingModifiers, forwarded, held>>
           ELSE /\ keyModifiers' = Tracked(keyModifiers, vkCode, pressed)
                /\ UNCHANGED hostPendingModifiers
                /\ IF leaderTransport = 0
                   THEN /\ kev' = [obs EXCEPT !.result = "AttributeError"]
                        /\ UNCHANGED <<forwarded, held>>
                   ELSE /\ kev' = [obs EXCEPT !.sent = <<KeyMessage(keyCode, pressed)>>,
                                              !.result = "False"]
                        /\ forwarded' = IF ~IsModifier(vkCode) THEN forwarded
                                        ELSE IF pressed THEN forwarded \cup {keyCode}
                                        ELSE forwarded \ {keyCode}
                        /\ held' = IF pressed THEN held \cup {keyCode}
                                   ELSE held \ {keyCode}
        /\ UNCHANGED <<sendingKeys, localScripts, isMuted, receivingBraille>>
        /\ KeyFrame

\* RemoteClient.toggleRemoteKeyControl with setReceivingBraille, toggleMute
\* and releaseKeys.  modifiers are the gesture's; ready stands for
\* leaderSession.callbacksAdded and braille.handler.enabled.
ToggleRemoteKeyControl(modifiers, ready) ==
    LET obs == [NoKey EXCEPT !.op = "toggle"]
    IN  /\ IF leaderTransport = 0
           THEN /\ kev' = obs
                /\ UNCHANGED <<sendingKeys, keyModifiers, hostPendingModifiers, forwarded, held,
                               isMuted, receivingBraille>>
           ELSE IF ~sendingKeys
           THEN /\ sendingKeys' = TRUE
                /\ receivingBraille' = IF ready THEN TRUE ELSE receivingBraille
                /\ hostPendingModifiers' = modifiers
                /\ isMuted' = FALSE
                /\ kev' = obs
                /\ UNCHANGED <<keyModifiers, forwarded, held>>
           ELSE /\ sendingKeys' = FALSE
                /\ receivingBraille' = FALSE
                /\ kev' = [obs EXCEPT !.sent = releaseKeys(keyModifiers)]
                /\ keyModifiers' = {}
                /\ forwarded' = forwarded \ keyModifiers
                /\ held' = {k \in held :
                               KeyMessage(k, FALSE) \notin Range(releaseKeys(keyModifiers))}
                /\ UNCHANGED <<hostPendingModifiers, isMuted>>
        /\ UNCHANGED localScripts
        /\ KeyFrame

\* RemoteClient.registerLocalScript
RegisterLocalScript(script) ==
    /\ localScripts' = localScripts \cup {script}
    /\ kev' = NoKey
    /\ UNCHANGED <<sendingKeys, keyModifiers, hostPendingModifiers, forwarded, held,
                   isMuted, receivingBraille>>
    /\ KeyFrame

\* RemoteClient.unregisterLocalScript
UnregisterLocalScript(script) ==
    /\ localScripts' = localScripts \ {script}
    /\ kev' = NoKey
    /\ UNCHANGED <<sendingKeys, keyModifiers, hostPendingModifiers, forwarded, held,
                   isMuted, receivingBraille>>
    /\ KeyFrame

\* The leader connection the keys are forwarded on.
LeaderConnection == ConnectionInfo("leader", "hostA", PortOf("hostA"), KeyOf("hostA"), FALSE)

NextKeys ==
    \/ Connect(LeaderConnection)
    \/ Disconnect
    \/ \E cb \in callbacks : OnDisconnectingAsLeader(cb)
    \/ \E vkCode \in VkCodes, pressed \in BOOLEAN : ProcessKeyInput(vkCode, pressed)
    \/ \E modifiers \in SUBSET {KeyCode(m) : m \in Modifiers}, ready \in BOOLEAN :
          ToggleRemoteKeyControl(modifiers, ready)
    \/ \E script \in Scripts : RegisterLocalScript(script)
    \/ \E script \in Scripts : UnregisterLocalScript(script)

SpecKeys == Init /\ [][NextKeys]_vars


(* C25: whenever key forwarding is turned off, exactly one KEY message     *)
(* with pressed false is sent for each tracked modifier, by the handler    *)
(* that turns it off and so before any later key event, and the tracked    *)
(* set is left empty.                                                      *)

Releases(sent, k) == {i \in DOMAIN sent : sent[i] = KeyMessage(k, FALSE)}

C25_ReleaseOnOff ==
    [][(sendingKeys /\ ~sendingKeys') =>
          /\ \A k \in keyModifiers : Cardinality(Releases(kev'.sent, k)) = 1
          /\ Len(kev'.sent) = Cardinality(keyModifiers)
          /\ keyModifiers' = {}]_vars

(* C25, amended: when toggleRemoteKeyControl turns key forwarding off, it  *)
(* sends exactly one KEY message with pressed false for each tracked       *)
(* modifier and leaves the tracked set empty; when the leader session is   *)
(* closing, onDisconnectingAsLeader turns it off and empties the set       *)
(* without sending anything.                                               *)

C25_Amended ==
    [][(sendingKeys /\ ~sendingKeys') =>
          /\ kev'.op \in {"toggle", "disconnecting"}
          /\ keyModifiers' = {}
          /\ kev'.op = "toggle" =>
                 /\ \A k \in keyModifiers : Cardinality(Releases(kev'.sent, k)) = 1
                 /\ Len(kev'.sent) = Cardinality(keyModifiers)
          /\ kev'.op = "disconnecting" => kev'.sent = <<>>]_vars

C25_Witness ==
    /\ kev.op = "toggle"
    /\ ~sendingKeys
    /\ Len(kev.sent) = Cardinality(Modifiers)
    /\ keyModifiers = {}

(* C26: a raw key event for which a KEY message is sent is blocked locally *)
(* (processKeyInput returns False); and while forwarding is on, a press of *)
(* a key that is no modifier is either run as a registered local script or *)
(* forwarded, never both.                                                  *)

C26_ForwardedIsBlocked ==
    [][kev'.op = "key" =>
          /\ kev'.sent # <<>> => kev'.result = "False"
          /\ (sendingKeys /\ kev'.pressed /\ ~IsModifier(kev'.vkCode)) =>
                 ((kev'.ran # None) # (kev'.sent # <<>>))]_vars

(* C27: while forwarding is on, the tracked modifiers are exactly those    *)
(* whose press was forwarded and whose release was not forwarded since;    *)
(* with forwarding off a key event leaves the set as it is and sends       *)
(* nothing.                                                                *)

C27_TrackedIsForwarded ==
    [][/\ sendingKeys' => keyModifiers' = forwarded'
       /\ (kev'.op = "key" /\ ~sendingKeys) =>
              (keyModifiers' = keyModifiers /\ kev'.sent = <<>>)]_vars


-----------------------------------------------------------------------------
(* LocalMachine (localMachine.py): the commands a session calls when a     *)
(* message of the peer arrives, on the thread that read it.  A command     *)
(* acts on the host directly, on that thread, or hands a call to           *)
(* wx.CallAfter, which queues it for the main thread.                      *)

\* A braille cell: its dots as an integer.
CellValues == {0, 255}

RECURSIVE SeqsUpTo(_, _)
\* The lists of at most n elements of S.
SeqsUpTo(S, n) ==
    IF n = 0 THEN {<<>>}
    ELSE LET shorter == SeqsUpTo(S, n - 1)
         IN  shorter \cup {Append(q, x) : q \in {r \in shorter : Len(r) = n - 1}, x \in S}

\* The cells a peer pushes: up to one more than the widest display.
CellLists == SeqsUpTo(CellValues, MaxDisplay + 1)

\* The display sizes a peer reports.
SizeLists == SeqsUpTo(0..MaxDisplay, MaxSizes)

\* [0] * n
Zeros(n) == [i \in 1..n |-> 0]

\* display without the padding
PadNone(cells, n) == cells

\* cells + [0] * (displaySize - len(cells))
Pad(cells, n) == cells \o Zeros(n - Len(cells))

\* A call with its arguments, as handed to wx.CallAfter.
Call(fn, args) == [fn |-> fn, args |-> args]

\* LocalMachine.display: the calls it hands to wx.CallAfter
display(cells) ==
    IF receivingBraille /\ displaySize > 0 /\ Len(cells) <= displaySize
    THEN <<Call("braille.handler._writeCells", Pad(cells, displaySize))>>
    ELSE <<>>

\* min(i for i in sizes if i > 0) over every size, positive or not
MinOfAll(sizes, value) ==
    CHOOSE m \in {sizes[i] : i \in DOMAIN sizes} :
        \A i \in DOMAIN sizes : m <= sizes[i]

\* min(i for i in sizes if i > 0), value when the generator is empty
MinPositive(sizes, value) ==
    LET positive == {sizes[i] : i \in {j \in DOMAIN sizes : sizes[j] > 0}}
    IN  IF positive = {} THEN value
        ELSE CHOOSE m \in positive : \A x \in positive : m <= x

\* LocalMachine.handleFilterDisplaySize
handleFilterDisplaySize(value) ==
    IF cachedSizes.isNone \/ cachedSizes.list = <<>> THEN value
    ELSE MinPositive(cachedSizes.list \o <<value>>, value)

\* The muted commands with the sounds left out
MutableSpeechOnly == {"cancelSpeech", "pauseSpeech", "speak"}

\* The commands that return at once when the machine is muted.
Mutable == {"playWave", "beep", "cancelSpeech", "pauseSpeech", "speak"}

Commands ==
    {"playWave", "beep", "cancelSpeech", "pauseSpeech", "speak", "brailleInput",
     "sendKey", "setClipboardText", "sendSAS"}

\* What a command calls itself, on the thread it is called on.
Direct(op) ==
    CASE op = "playWave" -> {"nvwave.playWaveFile"}
      [] op = "beep" -> {"tones.beep"}
      [] op = "speak" -> {"setSpeechCancelledToFalse"}
      [] op = "brailleInput" -> {"inputCore.manager.executeGesture"}
      [] op = "setClipboardText" -> {"cues.clipboardReceived", "api.copyToClip"}
      [] op = "sendSAS" -> {"SendSAS"}
      [] OTHER -> {}

\* What a command hands to wx.CallAfter.
Deferred(op) ==
    CASE op = "cancelSpeech" -> <<Call("speech._manager.cancel", <<>>)>>
      [] op = "pauseSpeech" -> <<Call("speech.pauseSpeech", <<>>)>>
      [] op = "speak" -> <<Call("speech._manager.speak", <<>>)>>
      [] op = "sendKey" -> <<Call("input.sendKey", <<>>)>>
      [] OTHER -> <<>>

\* What the commands of LocalMachine leave alone.
MachineFrame ==
    /\ UNCHANGED <<relayVars, stopVars, idVars, certVars, clientVars>>
    /\ UNCHANGED <<sendingKeys, keyModifiers, hostPendingModifiers, localScripts,
                   forwarded, held>>
    /\ kev' = NoKey

\* LocalMachine.playWave, beep, cancelSpeech, pauseSpeech, speak,
\* brailleInput, sendKey, setClipboardText and sendSAS, called by the
\* session on the thread of the transport.
Command(op) ==
    LET muted == op \in Mutable /\ isMuted
        direct == IF muted THEN {} ELSE Direct(op)
        deferred == IF muted THEN <<>> ELSE Deferred(op)
    IN  /\ Len(queue) + Len(deferred) <= MaxQueue
        /\ queue' = queue \o deferred
        /\ mev' = [NoCommand EXCEPT !.op = op, !.direct = direct, !.deferred = deferred]
        /\ UNCHANGED <<isMuted, receivingBraille, cachedSizes, displaySize>>
        /\ MachineFrame

\* LocalMachine.display, called by the session on the thread of the
\* transport.
Display(cells) ==
    /\ Len(queue) + Len(display(cells)) <= MaxQueue
    /\ queue' = queue \o display(cells)
    /\ mev' = [NoCommand EXCEPT !.op = "display", !.cells = cells,
                                !.deferred = display(cells)]
    /\ UNCHANGED <<isMuted, receivingBraille, cachedSizes, displaySize>>
    /\ MachineFrame

\* LocalMachine.setBrailleDisplay_size
SetBrailleDisplaySize(sizes) ==
    /\ cachedSizes' = [isNone |-> FALSE, list |-> sizes]
    /\ mev' = [NoCommand EXCEPT !.op = "setBrailleDisplay_size"]
    /\ UNCHANGED <<isMuted, receivingBraille, displaySize, queue>>
    /\ MachineFrame

\* LocalMachine.handleFilterDisplaySize, the filter of the braille handler.
HandleFilterDisplaySize(value) ==
    /\ mev' = [NoCommand EXCEPT !.op = "handleFilterDisplaySize", !.value = value,
                                !.result = handleFilterDisplaySize(value)]
    /\ UNCHANGED <<isMuted, receivingBraille, cachedSizes, displaySize, queue>>
    /\ MachineFrame

\* The main thread runs the next call wx.CallAfter queued.
RunDeferred ==
    /\ queue # <<>>
    /\ queue' = Tail(queue)
    /\ mev' = [NoCommand EXCEPT !.op = "CallAfter", !.deferred = <<Head(queue)>>]
    /\ UNCHANGED <<isMuted, receivingBraille, cachedSizes, displaySize>>
    /\ MachineFrame

\* RemoteClient.toggleMute
ToggleMute ==
    /\ isMuted' = ~isMuted
    /\ mev' = NoCommand
    /\ UNCHANGED <<receivingBraille, cachedSizes, displaySize, queue>>
    /\ MachineFrame

\* A braille display of n cells is connected (none for 0).
SetDisplay(n) ==
    /\ displaySize' = n
    /\ mev' = NoCommand
    /\ UNCHANGED <<isMuted, receivingBraille, cachedSizes, queue>>
    /\ MachineFrame

NextMachine ==
    \/ \E op \in Commands : Command(op)
    \/ \E cells \in CellLists : Display(cells)
    \/ \E sizes \in SizeLists : SetBrailleDisplaySize(sizes)
    \/ \E value \in 0..MaxDisplay : HandleFilterDisplaySize(value)
    \/ RunDeferred
    \/ ToggleMute
    \/ \E n \in 0..MaxDisplay : SetDisplay(n)
    \/ (leaderSession = 0 /\ Connect(LeaderConnection))
    \/ \E ready \in BOOLEAN : ToggleRemoteKeyControl({}, ready)

SpecMachine == Init /\ [][NextMachine]_vars


(* C28: with braille receiving on and a local display of n > 0 cells, a    *)
(* push of more than n cells writes nothing, and a push of k <= n cells    *)
(* writes exactly n cells: the k pushed, then n - k zeros.  With receiving *)
(* off or n = 0 nothing is written.                                        *)

WrittenCells == {i \in DOMAIN mev.deferred : mev.deferred[i].fn = "braille.handler._writeCells"}

C28_DisplayPads ==
    mev.op = "display" =>
        LET cells == mev.cells
            k == Len(cells)
            n == displaySize
        IN  IF receivingBraille /\ n > 0 /\ k <= n
            THEN /\ Len(mev.deferred) = 1
                 /\ WrittenCells = {1}
                 /\ Len(mev.deferred[1].args) = n
                 /\ \A i \in 1..k : mev.deferred[1].args[i] = cells[i]
                 /\ \A i \in (k + 1)..n : mev.deferred[1].args[i] = 0
            ELSE mev.deferred = <<>>

C28_Witness ==
    /\ mev.op = "display"
    /\ receivingBraille
    /\ displaySize = MaxDisplay
    /\ Len(mev.cells) = 1
    /\ mev.cells[1] # 0
    /\ Len(mev.deferred) = 1

(* C29: handleFilterDisplaySize returns the smallest strictly positive     *)
(* size among the cached remote sizes and the local value; with no cached  *)
(* sizes, or with no positive size among them all, it returns the value.   *)

PositiveSizes(value) ==
    {x \in {cachedSizes.list[i] : i \in DOMAIN cachedSizes.list} \cup {value} : x > 0}

C29_SmallestPositive ==
    mev.op = "handleFilterDisplaySize" =>
        IF cachedSizes.isNone \/ cachedSizes.list = <<>> THEN mev.result = mev.value
        ELSE IF PositiveSizes(mev.value) = {} THEN mev.result = mev.value
        ELSE /\ mev.result \in PositiveSizes(mev.value)
             /\ \A x \in PositiveSizes(mev.value) : mev.result <= x

C29_Witness ==
    /\ mev.op = "handleFilterDisplaySize"
    /\ \E i \in DOMAIN cachedSizes.list : cachedSizes.list[i] = 0
    /\ mev.result > 0
    /\ mev.result < mev.value

(* C30: every command of LocalMachine that acts on the host does so        *)
(* through a call deferred to the main thread, never directly on the       *)
(* thread of the transport that called it.                                 *)

C30_AlwaysDeferred == mev.direct = {}


(* C31: while the mute flag is set, the speech and sound commands (speak,  *)
(* cancelSpeech, pauseSpeech, beep, playWave) have no local effect, direct *)
(* or deferred; and no inbound command changes the mute flag.              *)

Inbound == Commands \cup {"display", "setBrailleDisplay_size"}

C31_MutedIsSilent ==
    [][mev'.op \in Inbound =>
          /\ isMuted' = isMuted
          /\ (isMuted /\ mev'.op \in {"speak", "cancelSpeech", "pauseSpeech", "beep",
                                     "playWave"}) =>
                 (mev'.direct = {} /\ mev'.deferred = <<>>)]_vars

C31_Witness ==
    /\ isMuted
    /\ mev.op = "beep"
    /\ mev.direct = {}
    /\ mev.deferred = <<>>

-----------------------------------------------------------------------------
(* C32: every message the relay routes reaches each recipient with exactly *)
(* the fields and values its sender wrote, and the origin a recipient is   *)
(* written is the id the server gave the sender, whatever origin, clients  *)
(* or client field the sender put in the message.                          *)

\* Entry k of the window of the parse at i writes the message parsed at i.
IsCopyOf(k, i) ==
    /\ k \in WindowOf(i)
    /\ IsSend(k)
    /\ log[k].msg.type = ParsedAt(i).type

C32_OriginIsSender ==
    Handled =>
        \A i \in DOMAIN log :
            (IsParse(i) /\ log[i].state = "AUTHENTICATED" /\ IsTyped(ParsedAt(i))) =>
                \A k \in DOMAIN log :
                    IsCopyOf(k, i) =>
                        /\ Without(log[k].msg, {"origin"}) = Without(ParsedAt(i), {"origin"})
                        /\ "origin" \in DOMAIN log[k].msg => log[k].msg.origin = log[i].c

-----------------------------------------------------------------------------
(* C33: a protocol_version message changes a client's recorded version     *)
(* only while that client is unauthenticated; from an authenticated client *)
(* it is relayed to the other authenticated clients like any routed        *)
(* message, and the sender's recorded version stays as it was.             *)

IsVersionAt(i) ==
    /\ IsParse(i)
    /\ IsTyped(ParsedAt(i))
    /\ ParsedAt(i).type = "protocol_version"

\* What sendToOthers does with message m of client c in the state the
\* handler started in.
RoutedFrom(c, m) ==
    SendToOthers([clients |-> pre.clients, obj |-> pre.obj, gone |-> pre.gone,
                  log |-> <<>>, exc |-> "none"], c, m).log

\* The entries of a log without the messages written.
Shape(lg) == [k \in DOMAIN lg |-> Without(lg[k], {"msg"})]

C33_VersionOnlyBeforeJoin ==
    Handled =>
        /\ \A c \in Range(pre.clients) \cap DOMAIN obj :
               obj[c].protocolVersion # pre.obj[c].protocolVersion =>
                   /\ c = ev.c
                   /\ ~pre.obj[c].authenticated
                   /\ IsVersionAt(1)
        /\ (IsVersionAt(1) /\ log[1].state = "AUTHENTICATED") =>
               /\ ev.c \in DOMAIN obj
               /\ obj[ev.c].protocolVersion = pre.obj[ev.c].protocolVersion
               /\ Shape(SubSeq(log, 2, Len(log))) = Shape(RoutedFrom(ev.c, MsgKey))
               /\ \A k \in DOMAIN log :
                      IsCopyOf(k, 1) => Without(log[k].msg, {"origin"}) = ParsedAt(1)

\* An authenticated client at version 1 sends protocol_version 2 and another
\* client is written it.
C33_Witness ==
    /\ Handled
    /\ IsVersionAt(1)
    /\ log[1].state = "AUTHENTICATED"
    /\ ParsedAt(1) = MsgProtocolVersion(2)
    /\ pre.obj[ev.c].protocolVersion = 1
    /\ \E k \in DOMAIN log : IsCopyOf(k, 1) /\ log[k].ok

-----------------------------------------------------------------------------
(* C35: for every authenticated client, the ids it was given in            *)
(* CHANNEL_JOINED, plus those of the CLIENT_JOINED messages written to it  *)
(* since, minus those of the CLIENT_LEFT messages, are the other clients   *)
(* authenticated now, each time the server has finished handling an event. *)
(* (Stated for one handler: a client that was authenticated before it      *)
(* starts from the other clients authenticated then.)                      *)

RECURSIVE KnownAfter(_, _)
\* The ids client c knows of after the first k entries of the log.
KnownAfter(c, k) ==
    IF k = 0 THEN (IF c \in AuthenticatedBefore THEN AuthenticatedBefore \ {c} ELSE {})
    ELSE LET known == KnownAfter(c, k - 1)
             e     == log[k]
         IN  IF e.kind = "send" /\ e.to = c /\ e.ok
             THEN CASE e.msg.type = "CHANNEL_JOINED" -> Range(e.msg.user_ids)
                    [] e.msg.type = "CLIENT_JOINED"  -> known \cup {e.msg.user_id}
                    [] e.msg.type = "CLIENT_LEFT"    -> known \ {e.msg.user_id}
                    [] OTHER                         -> known
             ELSE known

C35_RosterTracksTable ==
    Handled =>
        \A c \in AuthenticatedNow \ gone :
            KnownAfter(c, Len(log)) = AuthenticatedNow \ {c}

-----------------------------------------------------------------------------
(* C36: a session is closed and removed from the table at most once:       *)
(* removeClient is never called for a client that is no longer in the      *)
(* table, under any sequence of reads, bad-password joins and failed       *)
(* writes.                                                                 *)

C36_RemovedOnce ==
    /\ \A k \in DOMAIN log : log[k].kind = "close" => log[k].inTable
    /\ \A c \in Ids :
           Cardinality({k \in DOMAIN log : log[k].kind = "remove" /\ log[k].c = c}) <= 1

-----------------------------------------------------------------------------
(* C34: RemoteClient.isConnected() returns true exactly when the follower  *)
(* transport or the leader transport is connected, for every combination   *)
(* of existing and connected transports.                                   *)

\* RelayTransport.connected: the reconnector has connected and the
\* transport has not been closed.
Connected(t) == transports[t].successfulConnects > 0 /\ ~transports[t].closed

\* RemoteClient.isConnected
isConnected ==
    LET connector == IF followerTransport # 0 THEN followerTransport ELSE leaderTransport
    IN  IF connector # 0 THEN Connected(connector) ELSE FALSE

C34_IsConnected ==
    isConnected <=>
        \/ followerTransport # 0 /\ Connected(followerTransport)
        \/ leaderTransport # 0 /\ Connected(leaderTransport)

-----------------------------------------------------------------------------
(* C37: whenever key forwarding is on (sendingKeys is true) a leader       *)
(* transport exists, so a raw key event arriving at any moment, also       *)
(* between disconnect() and the deferred closing callback that turns       *)
(* forwarding off, is never forwarded through a missing transport.         *)

C37_ForwardingHasTransport ==
    /\ sendingKeys => leaderTransport # 0
    /\ kev.op = "key" => kev.result # "AttributeError"

-----------------------------------------------------------------------------
(* C38: whenever no leader session is live, receivingBraille is false: the *)
(* local braille display's enable decision is not left suppressed after a  *)
(* leader session has ended while the remote machine was being controlled. *)

C38_NoSessionNoBraille == leaderSession = 0 => ~receivingBraille

-----------------------------------------------------------------------------
(* The key handlers with the GUI loop running every deferred call: a       *)
(* callback queued by alwaysCallAfter is run in the end.  Key events,      *)
(* toggles and connects are the user's and may never come.                 *)

SpecKeysFair ==
    SpecKeys /\ WF_vars(\E cb \in callbacks : OnDisconnectingAsLeader(cb))

(* C39: every key press forwarded to the peer, of a modifier or not, is    *)
(* followed by a forwarded release of the same key once key forwarding has *)
(* been turned off while the leader transport is still there: no key stays *)
(* pressed on the remote side.                                             *)

C39_ReleasedAfterOff ==
    \A k \in {KeyCode(vkCode) : vkCode \in VkCodes} :
        (k \in held /\ kev.op = "toggle" /\ ~sendingKeys /\ leaderTransport # 0)
            ~> (k \notin held)

-----------------------------------------------------------------------------
(* C40: a lifecycle event of a transport only affects the session bound to *)
(* that transport: a deferred callback that runs after its transport was   *)
(* torn down or replaced never closes, reconfigures or dereferences a      *)
(* different or a missing session.  (Stated for the certificate callbacks, *)
(* whose transport the callback queue records.)                            *)

\* The session RemoteClient holds for the role of transport t.
SessionOfRole(t) ==
    IF transports[t].role = "leader" THEN leaderSession ELSE followerSession

C40_CallbackOwnsSession ==
    [][did'.op = "certificateFailed" =>
          (SessionOfRole(did'.t) # did'.t =>
               /\ SessionOfRole(did'.t) # 0
               /\ ~did'.prompted
               /\ transports' = transports
               /\ pins' = pins
               /\ leaderSession' = leaderSession
               /\ followerSession' = followerSession)]_vars

=============================================================================
